---- MODULE Spec2Model ----
(***************************************************************************)
(* Finite-size charge corrections of doped (src/doped/corrections.py):     *)
(* get_kumagai_correction (eFNV) and get_freysoldt_correction (FNV), with  *)
(* their input validation, the eFNV site sampling of                       *)
(* doped_make_efnv_correction and the assembly of the correction energy.   *)
(*                                                                         *)
(* Numbers.  Real quantities are kept exact:                               *)
(*   - energies and potentials are integers in meV / mV, and a mean is the *)
(*     rational [num, den] = sum / count (count 0 is the mean of no value);*)
(*   - lattice lengths are integers on a grid of 0.005 Angstrom, so that   *)
(*     the 0.01 Angstrom tolerance of line 534 is 2 grid units;            *)
(*   - fractional coordinates are integers in units of 1/FracDen.          *)
(* The Ewald sums themselves are pydefect's: the model draws them from a   *)
(* family of functions of (lattice matrix, dielectric tensor, accuracy)    *)
(* indexed by the variable ewald, fixed during a run.                      *)
(***************************************************************************)
EXTENDS Integers, Sequences, FiniteSets, TLC

\* ------------------------------------------------------------- bounds
\* Charge states range over -MaxCharge .. MaxCharge.
MaxCharge == 2
\* Number of atoms of the defect supercell (the bulk supercell has one more).
NAtoms == 3
\* Site potentials of the defect supercell are drawn from 0 .. MaxPot (mV).
MaxPot == 1
\* The Ewald family the library's sums are drawn from has EwaldFamily members.
EwaldFamily == 2
\* Fractional coordinates are multiples of 1/FracDen.
FracDen == 2

\* The most elements of a list nested in the metadata.
MaxItems == 2

\* ------------------------------------------------- program constants
\* unit_conversion = 180.95128169876497 (eV), in meV.
unit_conversion == 180951
\* atol = 1e-2 Angstrom of np.allclose (line 534), in grid units of 0.005.
Atol == 2
\* numpy's default rtol = 1e-5 (np.allclose, and pymatgen's Lattice.__eq__),
\* as its inverse.
RtolInv == 100000

\* ------------------------------------------------------------ helpers
Abs(x) == IF x < 0 THEN -x ELSE x

Min2(x, y) == IF x <= y THEN x ELSE y

RECURSIVE SumSeq(_)
SumSeq(s) == IF s = <<>> THEN 0 ELSE Head(s) + SumSeq(Tail(s))

\* The sequences of length n over the set S.
RECURSIVE SeqsOf(_, _)
SeqsOf(S, n) ==
    IF n = 0 THEN {<<>>}
    ELSE {Append(s, x) : s \in SeqsOf(S, n - 1), x \in S}

\* A rational number num / den; den = 0 is the mean of an empty list (nan).
Rat(n, d) == [num |-> n, den |-> d]

\* Python's float ==: nan equals nothing.
RatEq(x, y) == x.den # 0 /\ y.den # 0 /\ x.num * y.den = y.num * x.den

RatIsZero(x) == x.den # 0 /\ x.num = 0

\* --------------------------------------------------------- dielectric
\* A dielectric argument: None, a scalar, or a (possibly nested) sequence
\* given as a list or an ndarray, with its numpy shape and its flat data.
NoDielectric == [kind |-> "None", shape |-> <<>>, data |-> <<>>]

Scalar(x) == [kind |-> "scalar", shape |-> <<>>, data |-> <<x>>]

Vector(kind, s) == [kind |-> kind, shape |-> <<Len(s)>>, data |-> s]

Matrix(kind, rows, cols, s) == [kind |-> kind, shape |-> <<rows, cols>>, data |-> s]

Diag(a, b, c) == <<a, 0, 0, 0, b, 0, 0, 0, c>>

\* The outcome of a step that may raise: ok with a value, or the error.
Ok(v) == [ok |-> TRUE, val |-> v, err |-> "", msg |-> <<>>]

Raise(e, m) == [ok |-> FALSE, val |-> <<>>, err |-> e, msg |-> m]

\* A normalizer that lays a length-3 sequence along the first row.
_convert_dielectric_to_tensor_first_row(dielectric) ==
    IF dielectric.kind = "scalar"
    THEN Ok(Diag(dielectric.data[1], dielectric.data[1], dielectric.data[1]))
    ELSE IF dielectric.shape = <<3>>
    THEN Ok(<<dielectric.data[1], dielectric.data[2], dielectric.data[3],
              0, 0, 0, 0, 0, 0>>)
    ELSE IF dielectric.shape = <<3, 3>>
    THEN Ok(dielectric.data)
    ELSE Raise("ValueError", <<"dielectric shape">>)

\* doped.analysis._convert_dielectric_to_tensor: scalar -> scalar * identity,
\* length 3 -> diagonal, 3x3 -> unchanged, any other shape -> ValueError.
_convert_dielectric_to_tensor(dielectric) ==
    IF dielectric.kind = "scalar"
    THEN Ok(Diag(dielectric.data[1], dielectric.data[1], dielectric.data[1]))
    ELSE IF dielectric.shape = <<3>>
    THEN Ok(Diag(dielectric.data[1], dielectric.data[2], dielectric.data[3]))
    ELSE IF dielectric.shape = <<3, 3>>
    THEN Ok(dielectric.data)
    ELSE Raise("ValueError", <<"dielectric shape">>)

\* ------------------------------------------------------------ lattice
\* An orthorhombic lattice: lengths abc on the grid, and the volume it was
\* scaled to.  Its matrix is diag(abc) * (vol / (a*b*c))^(1/3).
Prod3(t) == t[1] * t[2] * t[3]

Lattice(abc) == [abc |-> abc, vol |-> Prod3(abc)]

\* pymatgen Lattice.scale(new_volume): same shape, the volume set.
scale_lattice(lattice, volume) == [abc |-> lattice.abc, vol |-> volume]

\* The cube of the i-th matrix element of a lattice, as a rational:
\* (a * cbrt(vol / p))^3 = a^3 * vol / p.
Cube(x) == x * x * x

LCube(l, i) ==
    IF l.vol = Prod3(l.abc)
    THEN [num |-> Cube(l.abc[i]), den |-> 1]
    ELSE [num |-> Cube(l.abc[i]) * l.vol, den |-> Prod3(l.abc)]

\* pymatgen Lattice.__eq__: np.allclose(self.matrix, other.matrix) with the
\* default tolerances, |x - y| <= atol + rtol * |y| elementwise (the default
\* atol of 1e-8 Angstrom is 2e-6 grid units: nothing).  A scaled length is
\* known by its cube, so the comparison is made on the cubes, where
\* |x - y| <= rtol * y is |x^3 - y^3| <= 3 * rtol * y^3 to first order.
LatticeEq(self, other) ==
    \A i \in 1..3 :
        LET x == LCube(self, i)
            y == LCube(other, i)
        IN  Abs(x.num * y.den - y.num * x.den) * RtolInv
                <= 3 * y.num * x.den

\* np.allclose(bulk.matrix, defect.matrix, atol=1e-2) on unscaled lattices.
allclose(bulk, defect) ==
    \A i \in 1..3 :
        Abs(bulk.abc[i] - defect.abc[i]) * RtolInv
            <= Atol * RtolInv + defect.abc[i]

\* ---------------------------------------------------------- structures
\* The k-th corner of the fractional grid: (0,0,0), (1,0,0), (0,1,0), ...
Corner(k) == <<(k - 1) % 2, ((k - 1) \div 2) % 2, ((k - 1) \div 4) % 2>>

SpecieAt(frac) == IF (frac[1] + frac[2] + frac[3]) % 2 = 0 THEN "Cd" ELSE "Te"

Site(frac) == [specie |-> SpecieAt(frac), frac |-> frac]

\* The bulk supercell: atoms at the first NAtoms + 1 corners.
BulkSupercell(abc, oxi) ==
    [lattice |-> Lattice(abc),
     sites |-> [k \in 1..(NAtoms + 1) |-> Site(Corner(k))],
     oxi |-> oxi]

\* The defect supercell: the bulk one with the atom at the origin removed
\* (a vacancy), whose site is the defect centre.
DefectSupercell(abc, oxi) ==
    [lattice |-> Lattice(abc),
     sites |-> [k \in 1..NAtoms |-> Site(Corner(k + 1))],
     oxi |-> oxi]

\* Structure.copy() then remove_oxidation_states(), on the copy.
remove_oxidation_states(structure) == [structure EXCEPT !.oxi = FALSE]

\* pydefect DefectStructureComparator.atom_mapping: defect index -> bulk
\* index of the same atom (same species at the same position); a sequence of
\* pairs <<d, p>> in the order of d.
RECURSIVE MappingFrom(_, _, _)
MappingFrom(defect, bulk, d) ==
    IF d > Len(defect.sites) THEN <<>>
    ELSE LET ps == {p \in 1..Len(bulk.sites) : bulk.sites[p] = defect.sites[d]}
         IN  (IF ps = {} THEN <<>> ELSE <<(<<d, CHOOSE p \in ps : TRUE>>)>>)
                 \o MappingFrom(defect, bulk, d + 1)

\* A mapping by position, as if the defect supercell always listed the
\* atoms of the bulk one in the same order after the removed atom.
atom_mapping_by_position(defect, bulk) ==
    [d \in 1..Len(defect.sites) |-> <<d, d + 1>>]

atom_mapping(defect, bulk) == MappingFrom(defect, bulk, 1)

\* lattice.get_distance_and_image(defect_coords, frac_coords): the minimum
\* image distance, here its square in units of (grid / (2 * FracDen))^2.
MinImage(delta) == Min2(delta % FracDen, FracDen - (delta % FracDen))

Distance2(lattice, c, f) ==
    LET leg(i) == 2 * MinImage(f[i] - c[i]) * lattice.abc[i]
    IN  leg(1) * leg(1) + leg(2) * leg(2) + leg(3) * leg(3)

\* pydefect calc_max_sphere_radius(lattice.matrix): the radius of the largest
\* sphere inscribed in the cell, in units of grid / (2 * FracDen).
calc_max_sphere_radius(lattice) ==
    FracDen * Min2(lattice.abc[1], Min2(lattice.abc[2], lattice.abc[3]))

\* site.distance > defect_region_radius, on the squared distance.
Beyond(dist2, radius) == radius < 0 \/ dist2 > radius * radius

\* -------------------------------------------------------------- state
VARIABLES
    defect_entry,   \* the DefectEntry the corrections are computed for
    ewald,          \* which member of the Ewald family the library computes
    call,           \* the arguments of the last call
    result          \* what the last call returned or raised

vars == <<defect_entry, ewald, call, result>>

\* ------------------------------------------------- Ewald (pydefect)
RECURSIVE Weighted(_, _)
Weighted(s, k) == IF s = <<>> THEN 0 ELSE k * Head(s) + Weighted(Tail(s), k + 1)

EwaldKey(matrix, dielectric_tensor, accuracy) ==
    Weighted(matrix, 1) + Weighted(dielectric_tensor, 1) + accuracy

\* How many values a lattice energy takes.
EwaldRange == 2 * EwaldFamily + 3

\* Ewald(lattice.matrix, dielectric_tensor, accuracy).lattice_energy: a
\* function of its three arguments alone, negative.
lattice_energy(matrix, dielectric_tensor, accuracy) ==
    -(1 + ((ewald + EwaldKey(matrix, dielectric_tensor, accuracy)) % EwaldRange))

\* ewald.atomic_site_potential(rel_coord): in -1 .. EwaldFamily - 1.
atomic_site_potential(matrix, dielectric_tensor, accuracy, rel_coord) ==
    ((ewald + EwaldKey(matrix, dielectric_tensor, accuracy)
        + Weighted(rel_coord, 1)) % (EwaldFamily + 1)) - 1

\* ------------------------------------- eFNV (doped_make_efnv_correction)
\* pc_potential of a PotentialSite: None, or a value.
NonePot == [set |-> FALSE, v |-> 0]

SomePot(x) == [set |-> TRUE, v |-> x]

PotentialSite(specie, distance2, potential, pc_potential) ==
    [specie |-> specie, distance2 |-> distance2, potential |-> potential,
     pc_potential |-> pc_potential]

RelCoord(coord, defect_coords) ==
    [i \in 1..3 |-> coord[i] - defect_coords[i]]

\* Lines 461-469: one PotentialSite, with no model potential yet, and one
\* relative coordinate for every mapped atom d that is not excluded.
RECURSIVE SitesFrom(_, _, _, _, _)

\* A site loop that reads the bulk potential at the defect index d, not at
\* the mapped bulk index p.
SitesFrom_bulk_at_defect_index(mapping, calc_results, perfect_calc_results, defect_coords, excluded_indices) ==
    IF mapping = <<>> THEN <<>>
    ELSE LET d == Head(mapping)[1]
             rest == SitesFrom(Tail(mapping), calc_results, perfect_calc_results,
                               defect_coords, excluded_indices)
         IN  IF d \in excluded_indices THEN rest
             ELSE <<[site |-> PotentialSite(
                                calc_results.structure.sites[d].specie,
                                Distance2(calc_results.structure.lattice, defect_coords,
                                          calc_results.structure.sites[d].frac),
                                calc_results.potentials[d] - perfect_calc_results.potentials[d],
                                NonePot),
                     rel_coord |-> RelCoord(calc_results.structure.sites[d].frac,
                                            defect_coords)]>> \o rest

SitesFrom(mapping, calc_results, perfect_calc_results, defect_coords, excluded_indices) ==
    IF mapping = <<>> THEN <<>>
    ELSE LET d == Head(mapping)[1]
             p == Head(mapping)[2]
             rest == SitesFrom(Tail(mapping), calc_results, perfect_calc_results,
                               defect_coords, excluded_indices)
         IN  IF d \in excluded_indices THEN rest
             ELSE <<[site |-> PotentialSite(
                                calc_results.structure.sites[d].specie,
                                Distance2(calc_results.structure.lattice, defect_coords,
                                          calc_results.structure.sites[d].frac),
                                calc_results.potentials[d] - perfect_calc_results.potentials[p],
                                NonePot),
                     rel_coord |-> RelCoord(calc_results.structure.sites[d].frac,
                                            defect_coords)]>> \o rest

\* Line 473 without the factor charge ** 2.
point_charge_correction_without_charge(lattice_energy_, charge) == -lattice_energy_

\* Line 473 with the charge where its square belongs.
point_charge_correction_linear(lattice_energy_, charge) ==
    IF charge # 0 THEN -lattice_energy_ * charge ELSE 0

\* Lines 472-473.
point_charge_correction(lattice_energy_, charge) ==
    IF charge # 0 THEN -lattice_energy_ * charge * charge ELSE 0

\* A model potential given to the sites at the radius too.
pc_potential_at_radius(site, rel_coord, defect_region_radius, charge, matrix, tensor, accuracy) ==
    IF defect_region_radius < 0
           \/ site.distance2 >= defect_region_radius * defect_region_radius
    THEN IF charge = 0 THEN SomePot(0)
         ELSE SomePot(atomic_site_potential(matrix, tensor, accuracy, rel_coord)
                          * charge * unit_conversion)
    ELSE site.pc_potential

\* A model potential that is that of a unit charge, whatever the charge.
pc_potential_of_unit_charge(site, rel_coord, defect_region_radius, charge, matrix, tensor, accuracy) ==
    IF Beyond(site.distance2, defect_region_radius)
    THEN SomePot((1 + atomic_site_potential(matrix, tensor, accuracy, rel_coord))
                     * unit_conversion)
    ELSE site.pc_potential

\* Lines 478-483: the model potential of one site.
pc_potential(site, rel_coord, defect_region_radius, charge, matrix, tensor, accuracy) ==
    IF Beyond(site.distance2, defect_region_radius)
    THEN IF charge = 0 THEN SomePot(0)
         ELSE SomePot(atomic_site_potential(matrix, tensor, accuracy, rel_coord)
                          * charge * unit_conversion)
    ELSE site.pc_potential

\* The value or the default of an optional argument [set, v].
NoneArg == [set |-> FALSE, v |-> 0]

SomeArg(x) == [set |-> TRUE, v |-> x]

\* A radius of 0 taken as no radius given.
doped_make_efnv_correction_falsy_radius(charge, calc_results, perfect_calc_results, dielectric_tensor, defect_region_radius, defect_coords, accuracy, excluded_indices) ==
    IF ~LatticeEq(calc_results.structure.lattice, perfect_calc_results.structure.lattice)
    THEN Raise("SupercellError", <<"lattices differ">>)
    ELSE
    LET lattice == calc_results.structure.lattice
        listed == SitesFrom(atom_mapping(calc_results.structure,
                                         perfect_calc_results.structure),
                            calc_results, perfect_calc_results, defect_coords,
                            excluded_indices)
        energy == lattice_energy(lattice.abc, dielectric_tensor, accuracy)
        radius == IF defect_region_radius.set /\ defect_region_radius.v # 0
                  THEN defect_region_radius.v
                  ELSE calc_max_sphere_radius(lattice)
    IN  Ok([charge |-> charge,
            point_charge_correction |->
                point_charge_correction(energy, charge) * unit_conversion,
            defect_region_radius |-> radius,
            sites |-> [k \in 1..Len(listed) |->
                          [listed[k].site EXCEPT !.pc_potential =
                              pc_potential(listed[k].site, listed[k].rel_coord, radius,
                                           charge, lattice.abc, dielectric_tensor,
                                           accuracy)]],
            defect_coords |-> defect_coords])

\* A site loop that excludes nothing.
doped_make_efnv_correction_nothing_excluded(charge, calc_results, perfect_calc_results, dielectric_tensor, defect_region_radius, defect_coords, accuracy, excluded_indices) ==
    IF ~LatticeEq(calc_results.structure.lattice, perfect_calc_results.structure.lattice)
    THEN Raise("SupercellError", <<"lattices differ">>)
    ELSE
    LET lattice == calc_results.structure.lattice
        listed == SitesFrom(atom_mapping(calc_results.structure,
                                         perfect_calc_results.structure),
                            calc_results, perfect_calc_results, defect_coords, {})
        energy == lattice_energy(lattice.abc, dielectric_tensor, accuracy)
        radius == IF defect_region_radius.set THEN defect_region_radius.v
                  ELSE calc_max_sphere_radius(lattice)
    IN  Ok([charge |-> charge,
            point_charge_correction |->
                point_charge_correction(energy, charge) * unit_conversion,
            defect_region_radius |-> radius,
            sites |-> [k \in 1..Len(listed) |->
                          [listed[k].site EXCEPT !.pc_potential =
                              pc_potential(listed[k].site, listed[k].rel_coord, radius,
                                           charge, lattice.abc, dielectric_tensor,
                                           accuracy)]],
            defect_coords |-> defect_coords])

\* A point-charge term taken per listed site: it shrinks with every
\* excluded site.
doped_make_efnv_correction_per_site(charge, calc_results, perfect_calc_results, dielectric_tensor, defect_region_radius, defect_coords, accuracy, excluded_indices) ==
    IF ~LatticeEq(calc_results.structure.lattice, perfect_calc_results.structure.lattice)
    THEN Raise("SupercellError", <<"lattices differ">>)
    ELSE
    LET lattice == calc_results.structure.lattice
        listed == SitesFrom(atom_mapping(calc_results.structure,
                                         perfect_calc_results.structure),
                            calc_results, perfect_calc_results, defect_coords,
                            excluded_indices)
        energy == lattice_energy(lattice.abc, dielectric_tensor, accuracy)
        radius == IF defect_region_radius.set THEN defect_region_radius.v
                  ELSE calc_max_sphere_radius(lattice)
    IN  Ok([charge |-> charge,
            point_charge_correction |->
                point_charge_correction(energy, charge) * unit_conversion
                    * Len(listed),
            defect_region_radius |-> radius,
            sites |-> [k \in 1..Len(listed) |->
                          [listed[k].site EXCEPT !.pc_potential =
                              pc_potential(listed[k].site, listed[k].rel_coord, radius,
                                           charge, lattice.abc, dielectric_tensor,
                                           accuracy)]],
            defect_coords |-> defect_coords])

doped_make_efnv_correction(charge, calc_results, perfect_calc_results, dielectric_tensor, defect_region_radius, defect_coords, accuracy, excluded_indices) ==
    IF ~LatticeEq(calc_results.structure.lattice, perfect_calc_results.structure.lattice)
    THEN Raise("SupercellError", <<"lattices differ">>)
    ELSE
    LET lattice == calc_results.structure.lattice
        listed == SitesFrom(atom_mapping(calc_results.structure,
                                         perfect_calc_results.structure),
                            calc_results, perfect_calc_results, defect_coords,
                            excluded_indices)
        energy == lattice_energy(lattice.abc, dielectric_tensor, accuracy)
        radius == IF defect_region_radius.set THEN defect_region_radius.v
                  ELSE calc_max_sphere_radius(lattice)
    IN  Ok([charge |-> charge,
            point_charge_correction |->
                point_charge_correction(energy, charge) * unit_conversion,
            defect_region_radius |-> radius,
            sites |-> [k \in 1..Len(listed) |->
                          [listed[k].site EXCEPT !.pc_potential =
                              pc_potential(listed[k].site, listed[k].rel_coord, radius,
                                           charge, lattice.abc, dielectric_tensor,
                                           accuracy)]],
            defect_coords |-> defect_coords])

\* A sampling region that is all the sites listed.
Sampled_every_site(efnv) == 1..Len(efnv.sites)

\* ------------------------------ ExtendedFnvCorrection (pydefect), as the
\* module documents it: the point-charge energy plus the potential alignment
\* by atomic site averaging outside the defect region.
Sampled(efnv) ==
    {k \in 1..Len(efnv.sites) :
        Beyond(efnv.sites[k].distance2, efnv.defect_region_radius)}

\* PotentialSite.diff_pot
diff_pot(site) == site.potential - site.pc_potential.v

RECURSIVE SumDiff(_, _)
SumDiff(efnv, ks) ==
    IF ks = {} THEN 0
    ELSE LET k == CHOOSE x \in ks : TRUE
         IN  diff_pot(efnv.sites[k]) + SumDiff(efnv, ks \ {k})

\* np.mean of diff_pot over the sampled sites.
average_potential_diff(efnv) ==
    Rat(SumDiff(efnv, Sampled(efnv)), Cardinality(Sampled(efnv)))

alignment_correction(efnv) ==
    Rat(-average_potential_diff(efnv).num * efnv.charge,
        average_potential_diff(efnv).den)

\* The energy without the alignment: the point-charge term alone.
correction_energy_point_charge_only(efnv) == Rat(efnv.point_charge_correction, 1)

correction_energy(efnv) ==
    Rat(efnv.point_charge_correction * alignment_correction(efnv).den
            + alignment_correction(efnv).num,
        alignment_correction(efnv).den)

\* ------------------------------------------------- calculation_metadata
\* A metadata value: absent, None, a value, or the value in its serialized
\* form (a dict with "@module" and "@class", after a reload from json).
MetaAbsent == [form |-> "absent", v |-> <<>>]

MetaNone == [form |-> "None", v |-> <<>>]

MetaValue(v) == [form |-> "value", v |-> v]

MetaSerialized(v) == [form |-> "serialized", v |-> v]

\* A decoding that loses the value it fails to decode.
_monty_decode_nested_dicts_lossy(d) ==
    [key \in DOMAIN d |-> IF d[key].form = "serialized" THEN MetaNone ELSE d[key]]

\* _monty_decode_nested_dicts on the entries the corrections read: a
\* serialized value is replaced by the decoded object.
_monty_decode_nested_dicts(d) ==
    [key \in DOMAIN d |->
        IF d[key].form = "serialized" THEN MetaValue(d[key].v) ELSE d[key]]

\* The metadata read by subscript: a KeyError for an absent key.
_get_and_check_metadata_subscript(calculation_metadata, key, display_name) ==
    IF calculation_metadata[key].form = "value"
    THEN Ok(calculation_metadata[key].v)
    ELSE IF calculation_metadata[key].form = "absent"
    THEN Raise("KeyError", <<key>>)
    ELSE Raise("ValueError", <<"must be provided", display_name, key>>)

\* Lines 93-104: the metadata value, or the ValueError naming display_name
\* and the key.
_get_and_check_metadata(calculation_metadata, key, display_name) ==
    IF calculation_metadata[key].form = "value"
    THEN Ok(calculation_metadata[key].v)
    ELSE Raise("ValueError", <<"must be provided", display_name, key>>)

\* ------------------------------------------------ LOCPOT / OUTCAR inputs
\* An argument holding potential data: None, a path (str) to a file with the
\* contents given, a pymatgen Outcar or Locpot object, a dict of planar
\* averages (possibly empty), or an object of another type.
\*   electrostatic_potential: the atomic core potentials of an OUTCAR (VASP's
\*   sign), or None;  planar: the planar-averaged potential of each axis.
\* The core potentials an OUTCAR holds, or their absence.
NoPotentials == [set |-> FALSE, v |-> <<>>]

SomePotentials(p) == [set |-> TRUE, v |-> p]

NoData == [kind |-> "None", path |-> "", electrostatic_potential |-> NoPotentials,
           planar |-> <<>>]

OutcarAt(path, potentials) ==
    [kind |-> "str", path |-> path, electrostatic_potential |-> potentials,
     planar |-> <<>>]

OutcarObject(potentials) ==
    [kind |-> "Outcar", path |-> "", electrostatic_potential |-> potentials,
     planar |-> <<>>]

LocpotAt(path, planar) ==
    [kind |-> "str", path |-> path, electrostatic_potential |-> NoPotentials,
     planar |-> planar]

LocpotObject(planar) ==
    [kind |-> "Locpot", path |-> "", electrostatic_potential |-> NoPotentials,
     planar |-> planar]

LocpotDict(planar) ==
    [kind |-> "dict", path |-> "", electrostatic_potential |-> NoPotentials,
     planar |-> planar]

OtherObject ==
    [kind |-> "other", path |-> "", electrostatic_potential |-> NoPotentials,
     planar |-> <<>>]

\* Python truth of an argument, as used by `defect_locpot or ...`.
Truthy(x) ==
    /\ x.kind # "None"
    /\ ~(x.kind = "str" /\ x.path = "")
    /\ ~(x.kind = "dict" /\ x.planar = <<>>)

\* doped.utils.parsing.get_outcar / get_locpot: the object parsed from the
\* file at the path.
get_outcar(x) == OutcarObject(x.electrostatic_potential)

get_locpot(x) == LocpotObject(x.planar)

\* Lines 107-119.
_check_if_str_and_get_pmg_obj(locpot_or_outcar, obj_type) ==
    IF locpot_or_outcar.kind = "str"
    THEN Ok(IF obj_type = "locpot" THEN get_locpot(locpot_or_outcar)
            ELSE get_outcar(locpot_or_outcar))
    ELSE IF locpot_or_outcar.kind \notin {"Locpot", "Outcar", "dict"}
    THEN Raise("TypeError", <<"input must be a path or object", obj_type>>)
    ELSE Ok(locpot_or_outcar)

\* The error with dir_type left at its default, "bulk".
_raise_incomplete_outcar_error_default_dir(outcar, dir_type) ==
    Raise("ValueError",
          <<"Unable to parse atomic core potentials", "bulk",
            IF outcar.kind = "str" THEN "OUTCAR at" ELSE "OUTCAR object",
            IF outcar.kind = "str" THEN outcar.path ELSE "">>)

\* Lines 632-644: the message names dir_type and, for a path, the path.
_raise_incomplete_outcar_error(outcar, dir_type) ==
    Raise("ValueError",
          <<"Unable to parse atomic core potentials", dir_type,
            IF outcar.kind = "str" THEN "OUTCAR at" ELSE "OUTCAR object",
            IF outcar.kind = "str" THEN outcar.path ELSE "">>)

\* -1 * np.array(outcar.electrostatic_potential)
Negated(potentials) == [k \in 1..Len(potentials) |-> -potentials[k]]

\* -------------------------------------------------------- the results
NoEfnv == [charge |-> 0, point_charge_correction |-> 0, defect_region_radius |-> 0,
           sites |-> <<>>, defect_coords |-> <<0, 0, 0>>]

\* What a call gave: kind "ok" with the CorrectionResult (correction_energy,
\* and in its metadata the ExtendedFnvCorrection or the FNV plot_data) and
\* the figure if one is returned with it, or the exception raised (kind) with
\* the parts of its message.
NoResult ==
    [kind |-> "none", msg |-> <<>>, lattices |-> <<>>,
     correction_energy |-> Rat(0, 0), efnv |-> NoEfnv, plot_data |-> <<>>,
     fig |-> FALSE, correction_error_squared |-> Rat(0, 0), warnings |-> {}]

Raised(x) == [NoResult EXCEPT !.kind = x.err, !.msg = x.msg]

\* doped.utils.parsing accessors of the entry.
_get_defect_supercell(entry) == entry.defect_supercell

_get_bulk_supercell(entry) == entry.bulk_supercell

_get_defect_supercell_bulk_site_coords(entry) == entry.sc_defect_frac_coords

\* CalcResults(structure=..., potentials=...)
CalcResults(structure, potentials) == [structure |-> structure, potentials |-> potentials]

\* ---------------------------------------------- get_kumagai_correction
\* Lines 501-519: the site potentials of one side, from the OUTCAR argument
\* if one is given and else from the metadata.
SitePotentials(outcar, metadata, key, display_name, dir_type) ==
    IF outcar.kind # "None"
    THEN LET loaded == _check_if_str_and_get_pmg_obj(outcar, "outcar")
         IN  IF ~loaded.ok THEN loaded
             ELSE IF loaded.val.kind # "Outcar"
             THEN Raise("AttributeError", <<"electrostatic_potential">>)
             ELSE IF ~loaded.val.electrostatic_potential.set
             THEN _raise_incomplete_outcar_error(loaded.val, dir_type)
             ELSE Ok(Negated(loaded.val.electrostatic_potential.v))
    ELSE _get_and_check_metadata(metadata, key, display_name)

\* Lines 497-499: the dielectric tensor of a call.
DielectricTensor(dielectric, metadata) ==
    LET given == IF dielectric.kind = "None"
                 THEN _get_and_check_metadata(metadata, "dielectric", "Dielectric constant")
                 ELSE Ok(dielectric)
    IN  IF ~given.ok THEN given ELSE _convert_dielectric_to_tensor(given.val)

\* The bulk supercell rescaled whenever the lattices differ, the tolerance
\* never consulted.
BulkSupercellUsed_always_rescaled(bulk_supercell, defect_supercell) ==
    IF ~LatticeEq(bulk_supercell.lattice, defect_supercell.lattice)
    THEN Ok([bulk_supercell EXCEPT
                !.lattice = scale_lattice(bulk_supercell.lattice,
                                          defect_supercell.lattice.vol)])
    ELSE Ok(bulk_supercell)

\* Lines 530-542: the bulk supercell used, rescaled to the volume of the
\* defect supercell when the lattices differ within the tolerance.
BulkSupercellUsed(bulk_supercell, defect_supercell) ==
    IF ~LatticeEq(bulk_supercell.lattice, defect_supercell.lattice)
    THEN IF allclose(bulk_supercell.lattice, defect_supercell.lattice)
         THEN Ok([bulk_supercell EXCEPT
                     !.lattice = scale_lattice(bulk_supercell.lattice,
                                               defect_supercell.lattice.vol)])
         ELSE Raise("ValueError", <<"Bulk and defect supercells have different lattices">>)
    ELSE Ok(bulk_supercell)

\* Lines 563-566.
CorrectionResult(efnv) ==
    [NoResult EXCEPT !.kind = "ok", !.correction_energy = correction_energy(efnv),
                     !.efnv = efnv]

\* Lines 573-629: the result alone, or with the figure.
WithFigure(res, plot, filename) ==
    IF ~plot /\ ~filename.set THEN res ELSE [res EXCEPT !.fig = TRUE]

\* The checks made bulk side first: dielectric, bulk site potentials, defect
\* site potentials, lattices.
get_kumagai_correction_bulk_first(entry, a) ==
    LET metadata == _monty_decode_nested_dicts(entry.calculation_metadata)
        dielectric == DielectricTensor(a.dielectric, metadata)
        defect_site_potentials ==
            SitePotentials(a.defect_outcar, metadata, "defect_site_potentials",
                           "Defect OUTCAR (for atomic site potentials)", "defect")
        bulk_site_potentials ==
            SitePotentials(a.bulk_outcar, metadata, "bulk_site_potentials",
                           "Bulk OUTCAR (for atomic site potentials)", "bulk")
        defect_supercell == remove_oxidation_states(_get_defect_supercell(entry))
        bulk_supercell ==
            BulkSupercellUsed(remove_oxidation_states(_get_bulk_supercell(entry)),
                              defect_supercell)
    IN  IF ~dielectric.ok THEN Raised(dielectric)
        ELSE IF ~bulk_site_potentials.ok THEN Raised(bulk_site_potentials)
        ELSE IF ~defect_site_potentials.ok THEN Raised(defect_site_potentials)
        ELSE IF ~bulk_supercell.ok
        THEN [Raised(bulk_supercell) EXCEPT
                 !.lattices = <<_get_bulk_supercell(entry).lattice,
                                defect_supercell.lattice>>]
        ELSE LET efnv_correction ==
                     doped_make_efnv_correction(
                         entry.charge_state,
                         CalcResults(defect_supercell, defect_site_potentials.val),
                         CalcResults(bulk_supercell.val, bulk_site_potentials.val),
                         dielectric.val, a.defect_region_radius,
                         _get_defect_supercell_bulk_site_coords(entry),
                         a.accuracy, a.excluded_indices)
             IN  IF ~efnv_correction.ok THEN Raised(efnv_correction)
                 ELSE WithFigure(CorrectionResult(efnv_correction.val),
                                 a.plot, a.filename)

\* Lines 497-629.
get_kumagai_correction(entry, a) ==
    LET metadata == _monty_decode_nested_dicts(entry.calculation_metadata)
        dielectric == DielectricTensor(a.dielectric, metadata)
        defect_site_potentials ==
            SitePotentials(a.defect_outcar, metadata, "defect_site_potentials",
                           "Defect OUTCAR (for atomic site potentials)", "defect")
        bulk_site_potentials ==
            SitePotentials(a.bulk_outcar, metadata, "bulk_site_potentials",
                           "Bulk OUTCAR (for atomic site potentials)", "bulk")
        defect_supercell == remove_oxidation_states(_get_defect_supercell(entry))
        bulk_supercell ==
            BulkSupercellUsed(remove_oxidation_states(_get_bulk_supercell(entry)),
                              defect_supercell)
    IN  IF ~dielectric.ok THEN Raised(dielectric)
        ELSE IF ~defect_site_potentials.ok THEN Raised(defect_site_potentials)
        ELSE IF ~bulk_site_potentials.ok THEN Raised(bulk_site_potentials)
        ELSE IF ~bulk_supercell.ok
        THEN [Raised(bulk_supercell) EXCEPT
                 !.lattices = <<_get_bulk_supercell(entry).lattice,
                                defect_supercell.lattice>>]
        ELSE LET efnv_correction ==
                     doped_make_efnv_correction(
                         entry.charge_state,
                         CalcResults(defect_supercell, defect_site_potentials.val),
                         CalcResults(bulk_supercell.val, bulk_site_potentials.val),
                         dielectric.val, a.defect_region_radius,
                         _get_defect_supercell_bulk_site_coords(entry),
                         a.accuracy, a.excluded_indices)
             IN  IF ~efnv_correction.ok THEN Raised(efnv_correction)
                 ELSE WithFigure(CorrectionResult(efnv_correction.val),
                                 a.plot, a.filename)

\* ------------- pymatgen freysoldt.get_freysoldt_correction (the FNV engine)
\* The isotropic dielectric constant the engine works with: the mean of the
\* diagonal of the tensor, kept as three times itself.
Trace(tensor) == tensor[1] + tensor[5] + tensor[9]

\* The long-range model potential in the sampling window of an axis, per
\* unit charge (mV).
fnv_long_range(lattice, tensor, axis) ==
    ((ewald + Weighted(lattice.abc, 1) + Trace(tensor) + axis) % (EwaldFamily + 1)) - 1

\* The alignment constant of an axis: the mean of the short-range residual
\* (defect - bulk planar average, less the long-range model) over the flat
\* window, where each profile is given by its value there.
fnv_shift(q, lattice, tensor, defect_planar, bulk_planar, axis) ==
    (defect_planar[axis] - bulk_planar[axis]) - q * fnv_long_range(lattice, tensor, axis)

\* The lattice energy of the isotropic point-charge model, negative.
fnv_lattice_energy(lattice, tensor) ==
    -(1 + ((ewald + Weighted(lattice.abc, 1) + Trace(tensor)) % EwaldRange))

\* The electrostatic point-charge term, -E_lattice * q^2 (meV).
fnv_es_corr(q, lattice, tensor) ==
    -fnv_lattice_energy(lattice, tensor) * q * q * unit_conversion

\* The engine: the point-charge term plus the mean over the three axes of
\* the alignment term -q * C; nothing to plot for q = 0.
freysoldt_get_freysoldt_correction(q, dielectric, defect_locpot, bulk_locpot, lattice) ==
    IF defect_locpot.kind \notin {"Locpot", "dict"}
    THEN Raise("ValueError", <<"defect_locpot must be of type Locpot or dict">>)
    ELSE IF bulk_locpot.kind \notin {"Locpot", "dict"}
    THEN Raise("ValueError", <<"bulk_locpot must be of type Locpot or dict">>)
    ELSE LET C(axis) == fnv_shift(q, lattice, dielectric, defect_locpot.planar,
                                  bulk_locpot.planar, axis)
         IN  Ok([NoResult EXCEPT
                    !.kind = "ok",
                    !.correction_energy =
                        Rat(3 * fnv_es_corr(q, lattice, dielectric)
                                + (-q * C(1)) + (-q * C(2)) + (-q * C(3)), 3),
                    !.plot_data =
                        [axis \in 1..3 |->
                            [pot_plot_data |->
                                IF q = 0 THEN NoneArg ELSE SomeArg(C(axis))]]])

\* -------------------------------------------- get_freysoldt_correction
\* The argument taken as it is, the metadata never consulted.
LocpotOrMetadata_argument_only(locpot, metadata, key, display_name) == Ok(locpot)

\* Lines 201-204: `locpot or _get_and_check_metadata(...)`.
LocpotOrMetadata(locpot, metadata, key, display_name) ==
    IF Truthy(locpot) THEN Ok(locpot)
    ELSE LET stored == _get_and_check_metadata(metadata, key, display_name)
         IN  IF stored.ok THEN Ok(LocpotDict(stored.val)) ELSE stored

\* A plot_FNV that draws whatever it is given.
plot_FNV_unchecked(plot_data) == Ok(TRUE)

\* Lines 268-272: plot_FNV refuses plot_data without pot_plot_data.
plot_FNV(plot_data) ==
    IF ~plot_data.pot_plot_data.set
    THEN Raise("ValueError", <<"Input plot_data has no pot_plot_data entry">>)
    ELSE Ok(TRUE)

\* A plot along one axis that also reports the alignment of that axis as
\* the energy.
FnvWithFigure_axis_energy(res, plot, filename, axis) ==
    IF ~plot /\ ~filename.set THEN res
    ELSE IF axis.set /\ res.plot_data[axis.v].pot_plot_data.set
    THEN [res EXCEPT !.fig = TRUE,
                     !.correction_energy =
                         Rat(res.plot_data[axis.v].pot_plot_data.v, 1)]
    ELSE [res EXCEPT !.fig = TRUE]

\* Lines 224-246: the result alone, or the plots drawn and the figure with it.
FnvWithFigure(res, plot, filename, axis) ==
    IF ~plot /\ ~filename.set THEN res
    ELSE LET axes == IF axis.set THEN {axis.v} ELSE 1..3
         IN  IF \E direction \in axes : ~plot_FNV(res.plot_data[direction]).ok
             THEN Raised(plot_FNV(res.plot_data[CHOOSE direction \in axes :
                                     ~plot_FNV(res.plot_data[direction]).ok]))
             ELSE [res EXCEPT !.fig = TRUE]

get_freysoldt_correction(entry, a) ==
    LET metadata == _monty_decode_nested_dicts(entry.calculation_metadata)
        dielectric == DielectricTensor(a.dielectric, metadata)
        defect_given == LocpotOrMetadata(a.defect_locpot, metadata,
                                         "defect_locpot_dict", "Defect LOCPOT")
        bulk_given == LocpotOrMetadata(a.bulk_locpot, metadata,
                                       "bulk_locpot_dict", "Bulk LOCPOT")
    IN  IF ~dielectric.ok THEN Raised(dielectric)
        ELSE IF ~defect_given.ok THEN Raised(defect_given)
        ELSE IF ~bulk_given.ok THEN Raised(bulk_given)
        ELSE LET defect_locpot == _check_if_str_and_get_pmg_obj(defect_given.val, "locpot")
                 bulk_locpot == _check_if_str_and_get_pmg_obj(bulk_given.val, "locpot")
             IN  IF ~defect_locpot.ok THEN Raised(defect_locpot)
                 ELSE IF ~bulk_locpot.ok THEN Raised(bulk_locpot)
                 ELSE LET fnv_correction ==
                              freysoldt_get_freysoldt_correction(
                                  entry.charge_state, dielectric.val,
                                  defect_locpot.val, bulk_locpot.val,
                                  _get_defect_supercell(entry).lattice)
                      IN  IF ~fnv_correction.ok THEN Raised(fnv_correction)
                          ELSE FnvWithFigure(fnv_correction.val, a.plot,
                                             a.filename, a.axis)

\* ------------------------------------------------------------ the calls
\* The arguments of a call (those of the other function at their defaults).
\* excluded_indices is the set of excluded defect indices (None: none);
\* indices count from 1.  defect_entry is the entry as it was passed in.
NoCall ==
    [fn |-> "none", defect_entry |-> <<>>, dielectric |-> NoDielectric, defect_region_radius |-> NoneArg,
     excluded_indices |-> {}, defect_outcar |-> NoData, bulk_outcar |-> NoData,
     defect_locpot |-> NoData, bulk_locpot |-> NoData, plot |-> FALSE,
     filename |-> NoneArg, axis |-> NoneArg, accuracy |-> 15,
     error_tolerance |-> 50]

KumagaiCall(dielectric, radius, excluded, defect_outcar, bulk_outcar, accuracy) ==
    [NoCall EXCEPT !.fn = "kumagai", !.dielectric = dielectric,
                   !.defect_region_radius = radius, !.excluded_indices = excluded,
                   !.defect_outcar = defect_outcar, !.bulk_outcar = bulk_outcar,
                   !.accuracy = accuracy]

FreysoldtCall(dielectric, defect_locpot, bulk_locpot) ==
    [NoCall EXCEPT !.fn = "freysoldt", !.dielectric = dielectric,
                   !.defect_locpot = defect_locpot, !.bulk_locpot = bulk_locpot]

\* The entry after a call that also stored its energy in corrections.
EntryAfter_correction_added(entry) ==
    [entry EXCEPT !.calculation_metadata =
                      _monty_decode_nested_dicts(entry.calculation_metadata),
                  !.corrections = entry.corrections \cup {<<"charge_correction", 0>>}]

\* The entry after a call that worked on the entry's own structures.
EntryAfter_without_copy(entry) ==
    [entry EXCEPT !.calculation_metadata =
                      _monty_decode_nested_dicts(entry.calculation_metadata),
                  !.defect_supercell = remove_oxidation_states(entry.defect_supercell),
                  !.bulk_supercell = remove_oxidation_states(entry.bulk_supercell)]

\* The entry after the call: its calculation_metadata decoded in place
\* (lines 194-195 and 494-495), before anything can raise.
EntryAfter(entry) ==
    [entry EXCEPT !.calculation_metadata =
        _monty_decode_nested_dicts(entry.calculation_metadata)]

\* A call of get_kumagai_correction with arguments among Args.  A call whose
\* sampling region holds no site is left out: the mean over no site is
\* taken inside pydefect.
CallKumagai(Args) ==
    /\ call.fn = "none"
    /\ \E a \in Args :
          LET res == get_kumagai_correction(defect_entry, a)
          IN  /\ res.kind = "ok" => Sampled(res.efnv) # {}
              /\ call' = [a EXCEPT !.defect_entry = defect_entry]
              /\ result' = res
    /\ defect_entry' = EntryAfter(defect_entry)
    /\ UNCHANGED ewald

\* A call of get_freysoldt_correction with arguments among Args.
CallFreysoldt(Args) ==
    /\ call.fn = "none"
    /\ \E a \in Args :
          /\ call' = [a EXCEPT !.defect_entry = defect_entry]
          /\ result' = get_freysoldt_correction(defect_entry, a)
    /\ defect_entry' = EntryAfter(defect_entry)
    /\ UNCHANGED ewald

\* ------------------------------------- the methods of the defect entry
\* DefectEntry.get_kumagai_correction and DefectEntry.get_freysoldt_correction
\* (doped.core): the functions above, the energy stored in
\* defect_entry.corrections, and the estimated error of the correction
\* compared with error_tolerance (meV; default 50, that is 0.05 eV).
\* Squares and their sums are kept up to ErrorCap, far above the square of
\* every tolerance: a larger number counts as ErrorCap.
ErrorCap == 1000000000

CappedSquare(x) == IF Abs(x) > 31622 THEN ErrorCap ELSE x * x

CappedSum(x, y) == Min2(ErrorCap, x + y)

\* The sum over the sampled sites ks of (q * (n * diff_pot - sum))^2.
RECURSIVE SumDeviationSquares(_, _, _, _)
SumDeviationSquares(efnv, ks, n, sum) ==
    IF ks = {} THEN 0
    ELSE LET k == CHOOSE x \in ks : TRUE
         IN  CappedSum(
                 CappedSquare(efnv.charge * (n * diff_pot(efnv.sites[k]) - sum)),
                 SumDeviationSquares(efnv, ks \ {k}, n, sum))

\* The square of the estimated error of the eFNV correction: |q| times the
\* standard error of the mean of diff_pot over the n sampled sites,
\* q^2 * sum (n * d - sum d)^2 / (n^3 * (n - 1)); nan for one site.
kumagai_correction_error_squared(efnv) ==
    LET n == Cardinality(Sampled(efnv))
    IN  Rat(SumDeviationSquares(efnv, Sampled(efnv), n,
                                SumDiff(efnv, Sampled(efnv))),
            n * n * n * (n - 1))

\* The standard deviation of the short-range potential in the sampling
\* window of one axis: one of a family of functions of the planar averages.
fnv_window_deviation(defect_planar, bulk_planar, axis) ==
    (ewald + defect_planar[axis] + bulk_planar[axis]) % 2

\* The square of the estimated error of the FNV correction: |q| times the
\* mean over the three axes of the deviation in the sampling window.
freysoldt_correction_error_squared(q, defect_planar, bulk_planar) ==
    LET sum == SumSeq([axis \in 1..3 |->
                          fnv_window_deviation(defect_planar, bulk_planar, axis)])
    IN  Rat(q * q * sum * sum, 9)

\* error > error_tolerance, on the squares; nan exceeds nothing.
ExceedsTolerance(error_squared, error_tolerance) ==
    error_squared.den # 0 /\ error_squared.num > error_tolerance * error_tolerance * error_squared.den

KumagaiWarning == "Estimated error in the Kumagai (eFNV) charge correction"

FreysoldtWarning == "Estimated error in the Freysoldt (FNV) charge correction"

\* The correction with its estimated error, and the warning if the error
\* exceeds the tolerance.
WithCorrectionError(res, error_squared, error_tolerance, warning) ==
    [res EXCEPT !.correction_error_squared = error_squared,
                !.warnings = IF ExceedsTolerance(error_squared, error_tolerance)
                             THEN {warning} ELSE {}]

\* A method that refuses a correction whose error exceeds the tolerance.
DefectEntry_get_kumagai_correction_refusing(entry, a) ==
    LET res == get_kumagai_correction(entry, a)
    IN  IF res.kind # "ok" THEN res
        ELSE IF ExceedsTolerance(kumagai_correction_error_squared(res.efnv),
                                 a.error_tolerance)
        THEN Raised(Raise("ValueError", <<KumagaiWarning>>))
        ELSE WithCorrectionError(res, kumagai_correction_error_squared(res.efnv),
                                 a.error_tolerance, KumagaiWarning)

DefectEntry_get_kumagai_correction(entry, a) ==
    LET res == get_kumagai_correction(entry, a)
    IN  IF res.kind # "ok" THEN res
        ELSE WithCorrectionError(res, kumagai_correction_error_squared(res.efnv),
                                 a.error_tolerance, KumagaiWarning)

DefectEntry_get_freysoldt_correction(entry, a) ==
    LET res == get_freysoldt_correction(entry, a)
        metadata == _monty_decode_nested_dicts(entry.calculation_metadata)
        defect_locpot == LocpotOrMetadata(a.defect_locpot, metadata,
                                          "defect_locpot_dict", "Defect LOCPOT")
        bulk_locpot == LocpotOrMetadata(a.bulk_locpot, metadata,
                                        "bulk_locpot_dict", "Bulk LOCPOT")
    IN  IF res.kind # "ok" THEN res
        ELSE WithCorrectionError(
                 res,
                 freysoldt_correction_error_squared(entry.charge_state,
                                                    defect_locpot.val.planar,
                                                    bulk_locpot.val.planar),
                 a.error_tolerance, FreysoldtWarning)

\* The entry after a method: its metadata decoded and, if a correction was
\* computed, the energy stored under the name of the correction.
EntryAfterMethod(entry, name, res) ==
    IF res.kind # "ok" THEN EntryAfter(entry)
    ELSE [EntryAfter(entry) EXCEPT
             !.corrections = {c \in @ : c[1] # name}
                                 \cup {<<name, res.correction_energy>>}]

\* A call of defect_entry.get_kumagai_correction with arguments among Args.
CallEntryKumagai(Args) ==
    /\ call.fn = "none"
    /\ \E a \in Args :
          LET res == DefectEntry_get_kumagai_correction(defect_entry, a)
          IN  /\ res.kind = "ok" => Sampled(res.efnv) # {}
              /\ call' = [a EXCEPT !.defect_entry = defect_entry]
              /\ result' = res
              /\ defect_entry' = EntryAfterMethod(defect_entry,
                                                  "kumagai_charge_correction", res)
    /\ UNCHANGED ewald

\* A call of defect_entry.get_freysoldt_correction with arguments among Args.
CallEntryFreysoldt(Args) ==
    /\ call.fn = "none"
    /\ \E a \in Args :
          LET res == DefectEntry_get_freysoldt_correction(defect_entry, a)
          IN  /\ call' = [a EXCEPT !.defect_entry = defect_entry]
              /\ result' = res
              /\ defect_entry' = EntryAfterMethod(defect_entry,
                                                  "freysoldt_charge_correction", res)
    /\ UNCHANGED ewald

\* The caller takes the result (or the exception); the next call may follow.
Return ==
    /\ call.fn # "none"
    /\ call' = NoCall
    /\ result' = NoResult
    /\ UNCHANGED <<defect_entry, ewald>>

\* ---------------------------------------------------------- the inputs
Charges == (-MaxCharge)..MaxCharge

\* Site potentials (already negated, as the metadata holds them).
DefectPotentials0 == [k \in 1..NAtoms |-> k % (MaxPot + 1)]

BulkPotentials0 == [k \in 1..(NAtoms + 1) |-> (k + 1) % 2]

DefectPlanar0 == <<2, 3, 1>>

BulkPlanar0 == <<1, 1, 0>>

\* Stored under a metadata key: as a value, or serialized after a reload.
Stored(side, reloaded, v) ==
    IF side = "absent" THEN MetaAbsent
    ELSE IF side = "None" THEN MetaNone
    ELSE IF reloaded THEN MetaSerialized(v) ELSE MetaValue(v)

DefectEntry(charge, dielectric, defect_side, bulk_side, reloaded, defect_potentials, defect_planar, defect_abc, bulk_abc) ==
    [name |-> "v_Cd",
     charge_state |-> charge,
     calculation_metadata |->
         [dielectric |-> dielectric,
          defect_site_potentials |-> Stored(defect_side, reloaded, defect_potentials),
          bulk_site_potentials |-> Stored(bulk_side, reloaded, BulkPotentials0),
          defect_locpot_dict |-> Stored(defect_side, reloaded, defect_planar),
          bulk_locpot_dict |-> Stored(bulk_side, reloaded, BulkPlanar0)],
     defect_supercell |-> DefectSupercell(defect_abc, TRUE),
     bulk_supercell |-> BulkSupercell(bulk_abc, TRUE),
     sc_defect_frac_coords |-> <<0, 0, 0>>,
     corrections |-> {}]

\* Lattices of the bulk supercell beside a defect supercell of <<2, 2, 2>>:
\* the same, proportional to it within the tolerance, of another shape within
\* the tolerance, and beyond the tolerance.
DefectAbc == <<2, 2, 2>>

BulkLattices == {<<2, 2, 2>>, <<4, 4, 4>>, <<3, 2, 2>>, <<5, 2, 2>>}

\* What an OUTCAR argument may be, for site potentials p.
OutcarInputs(path, p) ==
    {NoData, OutcarAt(path, SomePotentials(Negated(p))), OutcarAt(path, NoPotentials),
     OutcarObject(SomePotentials(Negated(p))), OutcarObject(NoPotentials),
     OtherObject}

\* What a LOCPOT argument may be, for planar averages p.
LocpotInputs(path, p) ==
    {NoData, LocpotAt(path, p), LocpotObject(p), LocpotDict(p), LocpotDict(<<>>),
     OtherObject}

DielectricInputs == {NoDielectric, Scalar(2), Vector("list", <<2, 2>>)}

\* What defect_entry.corrections may hold before a call: nothing, or a
\* correction added earlier (name and energy in meV).
StoredCorrections == {{}, {<<"freysoldt_charge_correction", 738>>}}

\* ------------------------------------- specification Spec: the checks
\* Calls with every combination of missing, unusable and usable inputs.
CheckedEntries ==
    {[DefectEntry(charge, dielectric, defect_side, bulk_side, reloaded,
                  DefectPotentials0, DefectPlanar0, DefectAbc, bulk_abc)
         EXCEPT !.corrections = corrections] :
        corrections \in StoredCorrections,
        charge \in {0, MaxCharge},
        dielectric \in {MetaAbsent, MetaNone, MetaValue(Scalar(2))},
        defect_side \in {"absent", "None", "stored"},
        bulk_side \in {"absent", "None", "stored"}, reloaded \in BOOLEAN,
        bulk_abc \in BulkLattices}

CheckedKumagaiCalls ==
    {KumagaiCall(dielectric, NoneArg, {}, defect_outcar, bulk_outcar, 15) :
        dielectric \in DielectricInputs,
        defect_outcar \in OutcarInputs("defect/OUTCAR", DefectPotentials0),
        bulk_outcar \in OutcarInputs("bulk/OUTCAR", BulkPotentials0)}

CheckedFreysoldtCalls ==
    {FreysoldtCall(dielectric, defect_locpot, bulk_locpot) :
        dielectric \in DielectricInputs,
        defect_locpot \in LocpotInputs("defect/LOCPOT", DefectPlanar0),
        bulk_locpot \in LocpotInputs("bulk/LOCPOT", BulkPlanar0)}

Init ==
    /\ defect_entry \in CheckedEntries
    /\ ewald \in 0..(EwaldFamily - 1)
    /\ call = NoCall
    /\ result = NoResult

Kumagai == CallKumagai(CheckedKumagaiCalls)

Freysoldt == CallFreysoldt(CheckedFreysoldtCalls)

Next == Kumagai \/ Freysoldt \/ Return

Spec == Init /\ [][Next]_vars

\* ------------------------------ specification SpecEnergy: the energies
\* Calls with usable inputs: every charge, site potentials, form of the
\* dielectric, defect region radius and set of excluded indices.
EnergyDielectrics ==
    {Scalar(2), Vector("list", <<2, 2, 2>>), Vector("ndarray", <<2, 2, 2>>),
     Matrix("list", 3, 3, Diag(2, 2, 2)), Matrix("ndarray", 3, 3, Diag(2, 2, 2)),
     Vector("list", <<2, 3, 4>>), Scalar(3)}

\* The site potentials of the defect supercell: those of the last two atoms
\* vary.
EnergyPotentials ==
    {p \in SeqsOf(0..MaxPot, NAtoms) : \A k \in 1..(NAtoms - 2) : p[k] = 0}

EnergyEntries ==
    {DefectEntry(charge, MetaAbsent, "stored", "stored", FALSE, potentials,
                 DefectPlanar0, abc, abc) :
        charge \in Charges,
        potentials \in EnergyPotentials,
        abc \in {<<2, 2, 2>>, <<3, 2, 2>>}}

EnergyKumagaiCalls ==
    {KumagaiCall(dielectric, radius, excluded, NoData, NoData, 15) :
        dielectric \in EnergyDielectrics,
        radius \in {NoneArg, SomeArg(0)},
        excluded \in {{}, {NAtoms}}}

EnergyFreysoldtCalls ==
    {FreysoldtCall(dielectric, NoData, NoData) : dielectric \in EnergyDielectrics}

InitEnergy ==
    /\ defect_entry \in EnergyEntries
    /\ ewald \in 0..(EwaldFamily - 1)
    /\ call = NoCall
    /\ result = NoResult

KumagaiEnergy == CallKumagai(EnergyKumagaiCalls)

FreysoldtEnergy == CallFreysoldt(EnergyFreysoldtCalls)

NextEnergy == KumagaiEnergy \/ FreysoldtEnergy \/ Return

SpecEnergy == InitEnergy /\ [][NextEnergy]_vars

\* ------------------------------- specification SpecPlot: the plotting
\* Calls with usable inputs and every choice of plot, filename and axis
\* (axes count from 1).  A filename is a path, here a number.
PlotFilenames == {NoneArg, SomeArg(1)}

PlotAxes == {NoneArg} \cup {SomeArg(axis) : axis \in 1..3}

PlotPlanars == {DefectPlanar0, <<1, 1, 1>>, <<3, 1, 0>>}

PlotEntries ==
    {DefectEntry(charge, MetaAbsent, "stored", "stored", FALSE, DefectPotentials0,
                 planar, <<2, 2, 2>>, <<2, 2, 2>>) :
        charge \in Charges, planar \in PlotPlanars}

PlotKumagaiCalls ==
    {[KumagaiCall(Scalar(2), NoneArg, {}, NoData, NoData, 15)
         EXCEPT !.plot = plot, !.filename = filename] :
        plot \in BOOLEAN, filename \in PlotFilenames}

PlotFreysoldtCalls ==
    {[FreysoldtCall(dielectric, NoData, NoData)
         EXCEPT !.plot = plot, !.filename = filename, !.axis = axis] :
        dielectric \in {Scalar(2), Vector("list", <<2, 3, 4>>)},
        plot \in BOOLEAN, filename \in PlotFilenames, axis \in PlotAxes}

InitPlot ==
    /\ defect_entry \in PlotEntries
    /\ ewald \in 0..(EwaldFamily - 1)
    /\ call = NoCall
    /\ result = NoResult

KumagaiPlot == CallKumagai(PlotKumagaiCalls)

FreysoldtPlot == CallFreysoldt(PlotFreysoldtCalls)

NextPlot == KumagaiPlot \/ FreysoldtPlot \/ Return

SpecPlot == InitPlot /\ [][NextPlot]_vars

\* ------------------------------ specification SpecOrder: the atom order
\* The orders of n atoms.
AtomOrders(n) ==
    {f \in [1..n -> 1..n] : \A i, j \in 1..n : f[i] = f[j] => i = j}

Identity(n) == [k \in 1..n |-> k]

Reversal(n) == [k \in 1..n |-> n + 1 - k]

\* The orders that exchange at most two atoms.
Swaps(n) == {f \in AtomOrders(n) : Cardinality({k \in 1..n : f[k] # k}) <= 2}

\* Reorderings <<order of the defect supercell, order of the bulk one>>:
\* every order of the defect supercell, every exchange of two atoms of the
\* bulk supercell, and both supercells reversed.
Orders ==
    {<<order, Identity(NAtoms + 1)>> : order \in AtomOrders(NAtoms)}
        \cup {<<Identity(NAtoms), order>> : order \in Swaps(NAtoms + 1)}
        \cup {<<Reversal(NAtoms), Reversal(NAtoms + 1)>>}

\* A sequence in another order.
Permuted(seq, order) == [k \in 1..Len(seq) |-> seq[order[k]]]

\* The entry parsed from calculations whose atoms are listed in other
\* orders: the sites of each supercell and its site potentials reordered
\* alike.
Reordered(entry, orders) ==
    [entry EXCEPT
        !.defect_supercell.sites = Permuted(@, orders[1]),
        !.calculation_metadata.defect_site_potentials.v = Permuted(@, orders[1]),
        !.bulk_supercell.sites = Permuted(@, orders[2]),
        !.calculation_metadata.bulk_site_potentials.v = Permuted(@, orders[2])]

OrderEntries ==
    {Reordered(DefectEntry(charge, MetaAbsent, "stored", "stored", FALSE, potentials,
                           DefectPlanar0, <<3, 2, 2>>, <<3, 2, 2>>), orders) :
        charge \in {1, -MaxCharge},
        potentials \in EnergyPotentials,
        orders \in Orders}

OrderKumagaiCalls ==
    {KumagaiCall(Scalar(2), radius, {}, NoData, NoData, 15) :
        radius \in {NoneArg, SomeArg(0)}}

OrderFreysoldtCalls == {FreysoldtCall(Scalar(2), NoData, NoData)}

InitOrder ==
    /\ defect_entry \in OrderEntries
    /\ ewald \in 0..(EwaldFamily - 1)
    /\ call = NoCall
    /\ result = NoResult

KumagaiOrder == CallKumagai(OrderKumagaiCalls)

FreysoldtOrder == CallFreysoldt(OrderFreysoldtCalls)

NextOrder == KumagaiOrder \/ FreysoldtOrder \/ Return

SpecOrder == InitOrder /\ [][NextOrder]_vars

\* ------------------------ specification SpecMethod: the entry's methods
\* The tolerances of the tests, in meV: the default, 0.001 eV and 0.00001 eV
\* (below the unit, here 0).
ErrorTolerances == {50, 1, 0}

MethodEntries ==
    {DefectEntry(charge, MetaAbsent, "stored", "stored", FALSE, potentials,
                 DefectPlanar0, <<3, 2, 2>>, <<3, 2, 2>>) :
        charge \in Charges, potentials \in EnergyPotentials}

MethodKumagaiCalls ==
    {[KumagaiCall(Scalar(2), NoneArg, {}, NoData, NoData, 15)
         EXCEPT !.fn = "DefectEntry.get_kumagai_correction",
                !.error_tolerance = error_tolerance] :
        error_tolerance \in ErrorTolerances}

MethodFreysoldtCalls ==
    {[FreysoldtCall(Scalar(2), NoData, NoData)
         EXCEPT !.fn = "DefectEntry.get_freysoldt_correction",
                !.error_tolerance = error_tolerance] :
        error_tolerance \in ErrorTolerances}

InitMethod ==
    /\ defect_entry \in MethodEntries
    /\ ewald \in 0..(EwaldFamily - 1)
    /\ call = NoCall
    /\ result = NoResult

KumagaiMethod == CallEntryKumagai(MethodKumagaiCalls)

FreysoldtMethod == CallEntryFreysoldt(MethodFreysoldtCalls)

NextMethod == KumagaiMethod \/ FreysoldtMethod \/ Return

SpecMethod == InitMethod /\ [][NextMethod]_vars

\* ------------------------------ specification SpecSites: the site list
\* An entry whose defect supercell has another atom in the place of atom d:
\* that atom has no counterpart in the bulk supercell.
Substituted(entry, d) ==
    [entry EXCEPT !.defect_supercell.sites[d].specie = "Se"]

\* Vacancies, alone and beside a substituted atom, in a supercell of
\* <<3, 2, 2>>: its atoms are at 6, 4 and more grid units from the defect,
\* and the default radius is 4.
SitesEntries ==
    LET Vacancies ==
            {DefectEntry(charge, MetaAbsent, "stored", "stored", FALSE, potentials,
                         DefectPlanar0, <<3, 2, 2>>, <<3, 2, 2>>) :
                charge \in {0, 1, -MaxCharge}, potentials \in EnergyPotentials}
    IN  Vacancies \cup {Substituted(entry, d) : entry \in Vacancies, d \in 1..NAtoms}

\* Every set of excluded indices; the radius at its default, 0, and at the
\* distance of an atom.
SitesKumagaiCalls ==
    {KumagaiCall(Scalar(2), radius, excluded, NoData, NoData, 15) :
        radius \in {NoneArg, SomeArg(0), SomeArg(6)},
        excluded \in SUBSET (1..NAtoms)}

InitSites ==
    /\ defect_entry \in SitesEntries
    /\ ewald \in 0..(EwaldFamily - 1)
    /\ call = NoCall
    /\ result = NoResult

NextSites == CallKumagai(SitesKumagaiCalls) \/ Return

SpecSites == InitSites /\ [][NextSites]_vars

\* ------------- _monty_decode_nested_dicts on nested dicts and lists
\* A value held in calculation_metadata: a plain value (number, string,
\* array), a serialized object (a dict with both "@module" and "@class"),
\* a decoded object, a dict with neither key, or a list.  items: the values
\* of a dict (its keys left out) or the elements of a list.
Plain == [kind |-> "plain", items |-> <<>>]

Serialized == [kind |-> "serialized", items |-> <<>>]

Decoded == [kind |-> "decoded", items |-> <<>>]

Dict(items) == [kind |-> "dict", items |-> items]

List(items) == [kind |-> "list", items |-> items]

\* MontyDecoder().process_decoded of a serialized object.
process_decoded(value) == IF value.kind = "serialized" THEN Decoded ELSE value

\* Lines 69-90, on the values of d: a dict with neither key is gone through
\* in turn; a list is decoded element by element when every element is a
\* serialized object, and else left as it is; a serialized object is decoded.
RECURSIVE _monty_decode_nested_dicts_items(_)
_monty_decode_nested_dicts_items(d) ==
    Dict([key \in DOMAIN d.items |->
            LET value == d.items[key]
            IN  IF value.kind = "dict" THEN _monty_decode_nested_dicts_items(value)
                ELSE IF value.kind = "list"
                        /\ \A i \in DOMAIN value.items : value.items[i].kind = "serialized"
                THEN List([i \in DOMAIN value.items |-> process_decoded(value.items[i])])
                ELSE IF value.kind = "serialized" THEN process_decoded(value)
                ELSE value])

\* A call of _monty_decode_nested_dicts on the metadata of the entry, which
\* it changes in place.
CallDecode ==
    /\ call.fn = "none"
    /\ call' = [NoCall EXCEPT !.fn = "_monty_decode_nested_dicts",
                              !.defect_entry = defect_entry]
    /\ defect_entry' =
           [defect_entry EXCEPT !.calculation_metadata =
                                    _monty_decode_nested_dicts_items(@)]
    /\ result' = [NoResult EXCEPT !.kind = "ok"]
    /\ UNCHANGED ewald

\* ---------------------- specification SpecDecode: the nested metadata
\* The sequences of length at most n over the set S.
SeqsUpTo(S, n) == UNION {SeqsOf(S, k) : k \in 0..n}

\* The values over a set of values: the leaves, the dicts of no or of one
\* of them, and the lists of up to MaxItems of them.
Nested(values) ==
    {Plain, Serialized}
        \cup {Dict(items) : items \in SeqsUpTo(values, 1)}
        \cup {List(items) : items \in SeqsUpTo(values, MaxItems)}

\* The metadata with one entry, nested up to a dict in a list (or a list in
\* a dict) under it.
DecodeEntries ==
    {[name |-> "v_Cd", calculation_metadata |-> Dict(<<value>>)] :
        value \in Nested(Nested({Plain, Serialized}))}

InitDecode ==
    /\ defect_entry \in DecodeEntries
    /\ ewald = 0
    /\ call = NoCall
    /\ result = NoResult

NextDecode == CallDecode \/ Return

SpecDecode == InitDecode /\ [][NextDecode]_vars

\* ------------------- specification SpecKinds: the kinds of an argument
\* Calls on entries with everything stored, each data argument being None,
\* a path, an Outcar object, a Locpot object, a dict of planar averages or
\* an object of another type, whichever of the two functions is called.
KindInputs(path, potentials, planar) ==
    {NoData,
     [OutcarAt(path, SomePotentials(Negated(potentials))) EXCEPT !.planar = planar],
     OutcarObject(SomePotentials(Negated(potentials))),
     LocpotObject(planar), LocpotDict(planar), OtherObject}

KindsEntries ==
    {DefectEntry(charge, MetaAbsent, "stored", "stored", FALSE, DefectPotentials0,
                 DefectPlanar0, <<2, 2, 2>>, <<2, 2, 2>>) :
        charge \in {0, 1, -MaxCharge}}

KindsKumagaiCalls ==
    {KumagaiCall(Scalar(2), NoneArg, {}, defect_outcar, bulk_outcar, 15) :
        defect_outcar \in KindInputs("defect/OUTCAR", DefectPotentials0, DefectPlanar0),
        bulk_outcar \in KindInputs("bulk/OUTCAR", BulkPotentials0, BulkPlanar0)}

KindsFreysoldtCalls ==
    {FreysoldtCall(Scalar(2), defect_locpot, bulk_locpot) :
        defect_locpot \in KindInputs("defect/LOCPOT", DefectPotentials0, DefectPlanar0),
        bulk_locpot \in KindInputs("bulk/LOCPOT", BulkPotentials0, BulkPlanar0)}

InitKinds ==
    /\ defect_entry \in KindsEntries
    /\ ewald \in 0..(EwaldFamily - 1)
    /\ call = NoCall
    /\ result = NoResult

NextKinds ==
    \/ CallKumagai(KindsKumagaiCalls)
    \/ CallFreysoldt(KindsFreysoldtCalls)
    \/ Return

SpecKinds == InitKinds /\ [][NextKinds]_vars

\* ======================================================= the claims
\* The call that has just returned a correction.
Returned(fn) == call.fn = fn /\ result.kind = "ok"

TensorOfCall == DielectricTensor(call.dielectric, defect_entry.calculation_metadata).val

PointChargeAt(charge) ==
    get_kumagai_correction([defect_entry EXCEPT !.charge_state = charge],
                           call).efnv.point_charge_correction

\* C2: the eFNV point-charge correction for charge q is
\* -(Ewald lattice energy) * q^2 * unit_conversion: the same for q and -q,
\* and four times as much for 2q.
C2_PointChargeQuadratic ==
    Returned("kumagai") =>
        LET q == defect_entry.charge_state
            pc == result.efnv.point_charge_correction
        IN  /\ pc = -lattice_energy(defect_entry.defect_supercell.lattice.abc,
                                    TensorOfCall, call.accuracy)
                        * q * q * unit_conversion
            /\ PointChargeAt(-q) = pc
            /\ PointChargeAt(2 * q) = 4 * pc

\* A defect of charge MaxCharge has been corrected, with a point-charge
\* term other than 0.
C2_Witness ==
    /\ Returned("kumagai")
    /\ defect_entry.charge_state = MaxCharge
    /\ result.efnv.point_charge_correction > 0

\* ------------------------------------------------------------------ C3
\* C3 as stated: the energy get_kumagai_correction returns is the
\* point-charge term alone, no alignment term being added to it.
C3_PointChargeTermAlone ==
    Returned("kumagai") =>
        RatEq(result.correction_energy, Rat(result.efnv.point_charge_correction, 1))

\* C3 as amended: the energy get_kumagai_correction returns is the
\* point-charge term plus the alignment term, -q times the mean potential
\* offset of the sampled sites.
C3_PointChargePlusAlignment ==
    Returned("kumagai") =>
        LET q == defect_entry.charge_state
            offset == average_potential_diff(result.efnv)
        IN  RatEq(result.correction_energy,
                  Rat(result.efnv.point_charge_correction * offset.den - q * offset.num,
                      offset.den))

\* A charged defect whose sampled sites have a mean offset other than 0 has
\* been corrected.
C3_Witness ==
    /\ Returned("kumagai")
    /\ defect_entry.charge_state # 0
    /\ average_potential_diff(result.efnv).num # 0

\* ------------------------------------------------------------------ C4
\* The forms of an isotropic dielectric d.
IsotropicForms(d) ==
    {Scalar(d), Vector("list", <<d, d, d>>), Vector("ndarray", <<d, d, d>>),
     Matrix("list", 3, 3, Diag(d, d, d)), Matrix("ndarray", 3, 3, Diag(d, d, d))}

EnergyWith(dielectric) ==
    IF call.fn = "kumagai"
    THEN get_kumagai_correction(defect_entry, [call EXCEPT !.dielectric = dielectric])
    ELSE get_freysoldt_correction(defect_entry, [call EXCEPT !.dielectric = dielectric])

\* C4: for the same entry and potential data, the dielectric given as d, as
\* [d, d, d] or as diag(d, d, d) (array or nested list) gives the same
\* correction energy, from each of the two functions.
C4_DielectricFormsAgree ==
    (call.fn # "none" /\ result.kind = "ok" /\ call.dielectric \in IsotropicForms(2))
        => \A form \in IsotropicForms(2) :
              /\ EnergyWith(form).kind = "ok"
              /\ RatEq(EnergyWith(form).correction_energy, result.correction_energy)

\* A charged defect has been corrected with the dielectric given as a
\* length-3 list, the energy being other than 0.
C4_Witness ==
    /\ Returned("kumagai")
    /\ call.dielectric = Vector("list", <<2, 2, 2>>)
    /\ defect_entry.charge_state # 0
    /\ ~RatIsZero(result.correction_energy)

\* ------------------------------------------------------------------ C5
\* The metadata holds no value under the key.
Missing(key) == defect_entry.calculation_metadata[key].form \in {"absent", "None"}

\* The ValueError of a missing quantity, naming it and its metadata key.
NamesMissing(display_name, key) ==
    /\ result.kind = "ValueError"
    /\ result.msg = <<"must be provided", display_name, key>>

\* C5: with the dielectric argument None and no dielectric in the metadata,
\* both functions raise a ValueError naming the dielectric constant and the
\* key `dielectric`, and return no correction.
C5_MissingDielectric ==
    (call.fn # "none" /\ call.dielectric.kind = "None" /\ Missing("dielectric"))
        => NamesMissing("Dielectric constant", "dielectric")

\* get_freysoldt_correction has been called with everything else at hand,
\* but no dielectric.
C5_Witness ==
    /\ call.fn = "freysoldt"
    /\ call.dielectric.kind = "None"
    /\ defect_entry.calculation_metadata.dielectric.form = "absent"
    /\ call.defect_locpot.kind = "Locpot"
    /\ call.bulk_locpot.kind = "Locpot"
    /\ result.kind = "ValueError"

\* ------------------------------------------------------------------ C6
\* A dielectric of a shape the normalizer takes.
DielectricUsable(d) == d.kind = "scalar" \/ d.shape \in {<<3>>, <<3, 3>>}

\* The dielectric check of the call passes.
DielectricAvailable ==
    IF call.dielectric.kind = "None"
    THEN /\ ~Missing("dielectric")
         /\ DielectricUsable(defect_entry.calculation_metadata.dielectric.v)
    ELSE DielectricUsable(call.dielectric)

\* The site potentials of a side are at hand: from a complete OUTCAR given
\* as a path or an object, or else from the metadata.
OutcarUsable(outcar, key) ==
    IF outcar.kind = "None" THEN ~Missing(key)
    ELSE outcar.kind \in {"str", "Outcar"} /\ outcar.electrostatic_potential.set

\* The LOCPOT of a side is given or stored.
LocpotGiven(locpot, key) == Truthy(locpot) \/ ~Missing(key)

\* C6 as stated: a potential-data argument not supplied and not in the
\* metadata makes the function raise a ValueError naming that quantity
\* (defect or bulk, and the metadata key).
C6_MissingPotentialNamed ==
    /\ (call.fn = "kumagai" /\ call.defect_outcar.kind = "None"
            /\ Missing("defect_site_potentials"))
        => NamesMissing("Defect OUTCAR (for atomic site potentials)",
                        "defect_site_potentials")
    /\ (call.fn = "kumagai" /\ call.bulk_outcar.kind = "None"
            /\ Missing("bulk_site_potentials"))
        => NamesMissing("Bulk OUTCAR (for atomic site potentials)",
                        "bulk_site_potentials")
    /\ (call.fn = "freysoldt" /\ call.defect_locpot.kind = "None"
            /\ Missing("defect_locpot_dict"))
        => NamesMissing("Defect LOCPOT", "defect_locpot_dict")
    /\ (call.fn = "freysoldt" /\ call.bulk_locpot.kind = "None"
            /\ Missing("bulk_locpot_dict"))
        => NamesMissing("Bulk LOCPOT", "bulk_locpot_dict")

\* C6 as amended: the function raises an error and returns no correction;
\* the error is the ValueError naming the missing quantity when the checks
\* made before it pass (the dielectric, and for the bulk side the defect
\* side's data).
C6_MissingPotentialNamedInOrder ==
    /\ (call.fn = "kumagai" /\ call.defect_outcar.kind = "None"
            /\ Missing("defect_site_potentials"))
        => /\ result.kind \notin {"ok", "none"}
           /\ DielectricAvailable
                => NamesMissing("Defect OUTCAR (for atomic site potentials)",
                                "defect_site_potentials")
    /\ (call.fn = "kumagai" /\ call.bulk_outcar.kind = "None"
            /\ Missing("bulk_site_potentials"))
        => /\ result.kind \notin {"ok", "none"}
           /\ (DielectricAvailable
                 /\ OutcarUsable(call.defect_outcar, "defect_site_potentials"))
                => NamesMissing("Bulk OUTCAR (for atomic site potentials)",
                                "bulk_site_potentials")
    /\ (call.fn = "freysoldt" /\ call.defect_locpot.kind = "None"
            /\ Missing("defect_locpot_dict"))
        => /\ result.kind \notin {"ok", "none"}
           /\ DielectricAvailable => NamesMissing("Defect LOCPOT", "defect_locpot_dict")
    /\ (call.fn = "freysoldt" /\ call.bulk_locpot.kind = "None"
            /\ Missing("bulk_locpot_dict"))
        => /\ result.kind \notin {"ok", "none"}
           /\ (DielectricAvailable
                 /\ LocpotGiven(call.defect_locpot, "defect_locpot_dict"))
                => NamesMissing("Bulk LOCPOT", "bulk_locpot_dict")

\* get_freysoldt_correction has been called with a dielectric and a defect
\* LOCPOT, but no bulk LOCPOT, and has named it.
C6_Witness ==
    /\ call.fn = "freysoldt"
    /\ call.bulk_locpot.kind = "None"
    /\ Missing("bulk_locpot_dict")
    /\ DielectricAvailable
    /\ call.defect_locpot.kind = "Locpot"
    /\ NamesMissing("Bulk LOCPOT", "bulk_locpot_dict")

\* ------------------------------------------------------------------ C7
\* An OUTCAR given, as a path or an object, without atomic core potentials.
Incomplete(outcar) ==
    outcar.kind \in {"str", "Outcar"} /\ ~outcar.electrostatic_potential.set

\* The ValueError of an incomplete OUTCAR, naming the side.
NamesIncomplete(dir_type) ==
    /\ result.kind = "ValueError"
    /\ Len(result.msg) = 4
    /\ result.msg[1] = "Unable to parse atomic core potentials"
    /\ result.msg[2] = dir_type

\* C7 as stated: a defect or bulk OUTCAR without atomic core potentials
\* makes get_kumagai_correction raise a ValueError naming that side.
C7_IncompleteOutcarNamed ==
    /\ (call.fn = "kumagai" /\ Incomplete(call.defect_outcar)) => NamesIncomplete("defect")
    /\ (call.fn = "kumagai" /\ Incomplete(call.bulk_outcar)
            /\ ~Incomplete(call.defect_outcar)) => NamesIncomplete("bulk")

\* C7 as amended: get_kumagai_correction raises an error and returns no
\* correction; the error is the ValueError naming the side when the checks
\* made before it pass (the dielectric, and for the bulk side the defect
\* side's data).
C7_IncompleteOutcarNamedInOrder ==
    /\ (call.fn = "kumagai" /\ Incomplete(call.defect_outcar))
        => /\ result.kind \notin {"ok", "none"}
           /\ DielectricAvailable => NamesIncomplete("defect")
    /\ (call.fn = "kumagai" /\ Incomplete(call.bulk_outcar))
        => /\ result.kind \notin {"ok", "none"}
           /\ (DielectricAvailable
                 /\ OutcarUsable(call.defect_outcar, "defect_site_potentials"))
                => NamesIncomplete("bulk")

\* get_kumagai_correction has been called with a complete defect OUTCAR and
\* a bulk OUTCAR object without core potentials, and has named the bulk.
C7_Witness ==
    /\ call.fn = "kumagai"
    /\ DielectricAvailable
    /\ call.defect_outcar.kind = "Outcar"
    /\ call.defect_outcar.electrostatic_potential.set
    /\ call.bulk_outcar.kind = "Outcar"
    /\ Incomplete(call.bulk_outcar)
    /\ NamesIncomplete("bulk")

\* ------------------------------------------------------------------ C8
\* C8: an OUTCAR given as a path that lacks atomic core potentials is
\* identified in the message by "OUTCAR at" and its path (the checks made
\* before it passing).
C8_IncompletePathNamed ==
    /\ (call.fn = "kumagai" /\ DielectricAvailable
            /\ call.defect_outcar.kind = "str" /\ Incomplete(call.defect_outcar))
        => /\ NamesIncomplete("defect")
           /\ result.msg[3] = "OUTCAR at"
           /\ result.msg[4] = call.defect_outcar.path
    /\ (call.fn = "kumagai" /\ DielectricAvailable
            /\ OutcarUsable(call.defect_outcar, "defect_site_potentials")
            /\ call.bulk_outcar.kind = "str" /\ Incomplete(call.bulk_outcar))
        => /\ NamesIncomplete("bulk")
           /\ result.msg[3] = "OUTCAR at"
           /\ result.msg[4] = call.bulk_outcar.path

\* ------------------------------------------------------------------ C9
\* The lattices of the entry's supercells.
BulkLattice == defect_entry.bulk_supercell.lattice

DefectLattice == defect_entry.defect_supercell.lattice

\* The checks get_kumagai_correction makes before the lattices pass.
InputsAvailable ==
    /\ DielectricAvailable
    /\ OutcarUsable(call.defect_outcar, "defect_site_potentials")
    /\ OutcarUsable(call.bulk_outcar, "bulk_site_potentials")

\* The ValueError reporting the two lattices, nothing having been computed.
ReportsLattices ==
    /\ result.kind = "ValueError"
    /\ result.msg = <<"Bulk and defect supercells have different lattices">>
    /\ result.lattices = <<BulkLattice, DefectLattice>>
    /\ result.efnv = NoEfnv

\* C9 as stated: lattices differing beyond the tolerance make
\* get_kumagai_correction raise the ValueError reporting the lattices.
C9_LatticeMismatchReported ==
    (call.fn = "kumagai" /\ ~allclose(BulkLattice, DefectLattice)) => ReportsLattices

\* C9 as amended: get_kumagai_correction raises an error and returns no
\* correction; the error is the ValueError reporting the lattices, raised
\* before any Ewald sum, when the dielectric and the site potentials of
\* both sides are at hand.
C9_LatticeMismatchReportedInOrder ==
    (call.fn = "kumagai" /\ ~allclose(BulkLattice, DefectLattice))
        => /\ result.kind \notin {"ok", "none"}
           /\ InputsAvailable => ReportsLattices

\* get_kumagai_correction has been called with all it needs on an entry whose
\* lattices differ beyond the tolerance, and has reported them.
C9_Witness ==
    /\ call.fn = "kumagai"
    /\ InputsAvailable
    /\ ~allclose(BulkLattice, DefectLattice)
    /\ ReportsLattices

\* ----------------------------------------------------------------- C10
\* C10: lattices unequal but within the tolerance do not make
\* get_kumagai_correction raise a lattice error: the bulk lattice is
\* rescaled and the correction computed (the inputs being at hand).
C10_WithinToleranceCorrected ==
    (call.fn = "kumagai" /\ InputsAvailable
        /\ ~LatticeEq(BulkLattice, DefectLattice)
        /\ allclose(BulkLattice, DefectLattice))
        => /\ result.kind \notin {"ValueError", "SupercellError"}
           /\ result.kind = "ok"

\* ----------------------------------------------------------------- C11
\* C11: get_freysoldt_correction fails, returning no correction, whenever
\* the defect and bulk supercells do not share the same lattice.
C11_FreysoldtLatticeMismatchFails ==
    (call.fn = "freysoldt" /\ ~LatticeEq(BulkLattice, DefectLattice))
        => result.kind \notin {"ok", "none"}

\* ----------------------------------------------------------------- C12
\* A step that is a call of one of the two functions.
IsCall == call.fn = "none" /\ call'.fn \in {"kumagai", "freysoldt"}

\* C12: neither function adds to or changes defect_entry.corrections: after
\* any call, successful or failing, it is what it was before the call.
C12_CorrectionsUntouched ==
    [][IsCall => defect_entry'.corrections = defect_entry.corrections]_vars

\* A call has returned a correction for an entry that already held a
\* correction, and holds it still.
C12_Witness ==
    /\ call.fn \in {"kumagai", "freysoldt"}
    /\ result.kind = "ok"
    /\ defect_entry.corrections = {<<"freysoldt_charge_correction", 738>>}

\* ----------------------------------------------------------------- C13
\* A call of one of the two functions without plot and filename is over.
CalledWithoutPlot ==
    call.fn \in {"kumagai", "freysoldt"} /\ ~call.plot /\ ~call.filename.set

C14_StructuresUntouched ==
    call.fn = "kumagai" =>
        /\ defect_entry.defect_supercell = call.defect_entry.defect_supercell
        /\ defect_entry.bulk_supercell = call.defect_entry.bulk_supercell

\* get_kumagai_correction has returned a correction for an entry whose bulk
\* lattice it had to rescale, the entry's structures keeping their oxidation
\* states.
C14_Witness ==
    /\ call.fn = "kumagai"
    /\ result.kind = "ok"
    /\ ~LatticeEq(BulkLattice, DefectLattice)
    /\ defect_entry.bulk_supercell.oxi
    /\ defect_entry.defect_supercell.oxi

\* ----------------------------------------------------------------- C15
\* C15: each of the two functions returns a figure with the correction if
\* and only if plot is True; with plot False it returns the correction
\* alone.
C15_FigureIffPlot ==
    (call.fn \in {"kumagai", "freysoldt"} /\ result.kind = "ok")
        => (result.fig <=> call.plot)

\* ----------------------------------------------------------------- C16
\* The same call with other plotting arguments.
FreysoldtWith(plot, filename, axis) ==
    get_freysoldt_correction(
        call.defect_entry,
        [call EXCEPT !.plot = plot, !.filename = filename, !.axis = axis])

\* The energy of all three axes: the electrostatic term and the mean of
\* the three alignment terms -q * C, C the shift of each axis as plotted.
AllAxesEnergy ==
    LET q == defect_entry.charge_state
    IN  Rat(3 * fnv_es_corr(q, DefectLattice, TensorOfCall)
                + SumSeq([axis \in 1..3 |->
                             -q * result.plot_data[axis].pot_plot_data.v]),
            3)

\* C16: the correction energy and the metadata that
\* get_freysoldt_correction returns are those for all three axes, the same
\* for every successful call that differs only in axis, plot and filename.
C16_EnergyIndependentOfPlotting ==
    Returned("freysoldt") =>
        /\ RatEq(result.correction_energy, AllAxesEnergy)
        /\ \A plot \in BOOLEAN, filename \in PlotFilenames, axis \in PlotAxes :
              LET other == FreysoldtWith(plot, filename, axis)
              IN  other.kind = "ok" =>
                     /\ RatEq(other.correction_energy, result.correction_energy)
                     /\ other.plot_data = result.plot_data

\* A charged defect whose alignment differs between the axes has been
\* corrected and plotted along one axis.
C16_Witness ==
    /\ Returned("freysoldt")
    /\ call.plot
    /\ call.axis.set
    /\ defect_entry.charge_state # 0
    /\ result.plot_data[1] # result.plot_data[2]

\* ----------------------------------------------------------------- C17
\* The message of plot_FNV for plot_data without pot_plot_data.
NoPotPlotData == <<"Input plot_data has no pot_plot_data entry">>

\* The axes a call plots along.
PlottedAxes == IF call.axis.set THEN {call.axis.v} ELSE 1..3

\* C17: plot_FNV raises ValueError for plot_data whose pot_plot_data is
\* empty, and get_freysoldt_correction with plot=True, whatever the axis,
\* raises that error instead of returning a figure when the data it would
\* plot is empty, as it is for a neutral defect.
C17_EmptyPlotDataRaises ==
    (call.fn = "freysoldt" /\ call.plot) =>
        LET unplotted == FreysoldtWith(FALSE, NoneArg, call.axis)
        IN  /\ (unplotted.kind = "ok" /\ defect_entry.charge_state = 0)
                  => \A direction \in 1..3 :
                        ~unplotted.plot_data[direction].pot_plot_data.set
            /\ (/\ unplotted.kind = "ok"
                /\ \E direction \in PlottedAxes :
                      ~unplotted.plot_data[direction].pot_plot_data.set)
                  => /\ \A direction \in PlottedAxes :
                           ~unplotted.plot_data[direction].pot_plot_data.set
                              => LET drawn == plot_FNV(unplotted.plot_data[direction])
                                 IN  /\ ~drawn.ok
                                     /\ drawn.err = "ValueError"
                     /\ result.kind = "ValueError"
                     /\ result.msg = NoPotPlotData
                     /\ ~result.fig

\* A plot of the correction of a neutral defect along one axis has been
\* refused.
C17_Witness ==
    /\ call.fn = "freysoldt"
    /\ call.plot
    /\ call.axis.set
    /\ defect_entry.charge_state = 0
    /\ result.kind = "ValueError"
    /\ result.msg = NoPotPlotData

\* ----------------------------------------------------------------- C20
\* Other choices of the excluded indices and of the defect region radius.
OtherExcluded == {{}, {1}, {NAtoms}, 1..NAtoms}

OtherRadii == {NoneArg, SomeArg(0), SomeArg(1)}

\* C20: the eFNV point-charge term does not depend on excluded_indices nor
\* on defect_region_radius: for the same lattice, dielectric, charge and
\* accuracy, every choice of the two gives the same
\* point_charge_correction.
C20_PointChargeIgnoresExclusion ==
    Returned("kumagai") =>
        \A excluded \in OtherExcluded, radius \in OtherRadii :
            LET other == get_kumagai_correction(
                             call.defect_entry,
                             [call EXCEPT !.excluded_indices = excluded,
                                          !.defect_region_radius = radius])
            IN  /\ other.kind = "ok"
                /\ other.efnv.point_charge_correction
                       = result.efnv.point_charge_correction

\* A charged defect has been corrected with a site excluded that the
\* sampling region would else hold, and a radius given: the point-charge
\* term is not 0, and the sites listed are fewer.
C20_Witness ==
    /\ Returned("kumagai")
    /\ defect_entry.charge_state # 0
    /\ call.excluded_indices = {NAtoms}
    /\ call.defect_region_radius.set
    /\ result.efnv.point_charge_correction # 0
    /\ Len(result.efnv.sites) = NAtoms - 1
    /\ Beyond(Distance2(DefectLattice, defect_entry.sc_defect_frac_coords,
                        defect_entry.defect_supercell.sites[NAtoms].frac),
              call.defect_region_radius.v)

\* ----------------------------------------------------------------- C19
\* The place of a site in the unpermuted supercells: the number of its
\* corner.
CornerIndex(site) == CHOOSE k \in 1..8 : Corner(k) = site.frac

\* The order that lists the sites by their corners.
SortingOrder(sites) ==
    [k \in 1..Len(sites) |->
        CHOOSE j \in 1..Len(sites) :
            Cardinality({i \in 1..Len(sites) :
                            CornerIndex(sites[i]) < CornerIndex(sites[j])}) = k - 1]

\* The entry of the call with the atoms of both supercells, and their
\* potentials with them, in the order of the corners.
InCornerOrder ==
    Reordered(call.defect_entry,
              <<SortingOrder(call.defect_entry.defect_supercell.sites),
                SortingOrder(call.defect_entry.bulk_supercell.sites)>>)

IsReordered == InCornerOrder # call.defect_entry

\* C19: the correction energy of either function for supercells whose
\* atoms (and site potentials with them) are listed in another order is
\* that for the supercells in their first order.
C19_OrderOfAtomsIrrelevant ==
    /\ Returned("kumagai") =>
          LET other == get_kumagai_correction(InCornerOrder, call)
          IN  /\ other.kind = "ok"
              /\ RatEq(other.correction_energy, result.correction_energy)
    /\ Returned("freysoldt") =>
          LET other == get_freysoldt_correction(InCornerOrder, call)
          IN  /\ other.kind = "ok"
              /\ RatEq(other.correction_energy, result.correction_energy)

\* A charged defect whose defect supercell lists its atoms in another order
\* than the bulk one, with site potentials that differ from atom to atom,
\* has been corrected by get_kumagai_correction with an alignment term.
C19_Witness ==
    /\ Returned("kumagai")
    /\ IsReordered
    /\ atom_mapping(defect_entry.defect_supercell, defect_entry.bulk_supercell)
           # atom_mapping_by_position(defect_entry.defect_supercell,
                                      defect_entry.bulk_supercell)
    /\ \E j, k \in Sampled(result.efnv) :
          diff_pot(result.efnv.sites[j]) # diff_pot(result.efnv.sites[k])
    /\ average_potential_diff(result.efnv).num # 0

\* ----------------------------------------------------------------- C18
\* The function behind the method called, on the same entry and arguments.
PlainCorrection ==
    IF call.fn = "DefectEntry.get_kumagai_correction"
    THEN get_kumagai_correction(call.defect_entry, call)
    ELSE get_freysoldt_correction(call.defect_entry, call)

MethodWith(error_tolerance) ==
    IF call.fn = "DefectEntry.get_kumagai_correction"
    THEN DefectEntry_get_kumagai_correction(
             call.defect_entry, [call EXCEPT !.error_tolerance = error_tolerance])
    ELSE DefectEntry_get_freysoldt_correction(
             call.defect_entry, [call EXCEPT !.error_tolerance = error_tolerance])

IsMethod ==
    call.fn \in {"DefectEntry.get_kumagai_correction",
                 "DefectEntry.get_freysoldt_correction"}

\* C18: the reliability warning is advisory.  Whenever the correction can
\* be computed the method returns it, with the energy of the function and
\* the same energy under every error_tolerance; it warns if and only if the
\* estimated error exceeds error_tolerance, whose default is 0.05 eV.
C18_WarningAdvisory ==
    /\ NoCall.error_tolerance = 50
    /\ (IsMethod /\ PlainCorrection.kind = "ok") =>
          /\ result.kind = "ok"
          /\ RatEq(result.correction_energy, PlainCorrection.correction_energy)
          /\ result.warnings # {}
                <=> ExceedsTolerance(result.correction_error_squared,
                                     call.error_tolerance)
          /\ \A error_tolerance \in ErrorTolerances :
                LET other == MethodWith(error_tolerance)
                IN  /\ other.kind = "ok"
                    /\ RatEq(other.correction_energy, result.correction_energy)
                    /\ other.correction_error_squared = result.correction_error_squared

\* A correction whose estimated error exceeds a tolerance below 0.05 eV has
\* been returned by defect_entry.get_freysoldt_correction with a warning:
\* the same call under the default tolerance gives no warning.
C18_Witness ==
    /\ call.fn = "DefectEntry.get_freysoldt_correction"
    /\ result.kind = "ok"
    /\ call.error_tolerance < 50
    /\ result.warnings = {FreysoldtWarning}
    /\ MethodWith(50).warnings = {}
    /\ ~RatIsZero(result.correction_energy)

\* ----------------------------------------------------------------- C21
\* The eFNV correction of the same call with other excluded indices.
EfnvExcluding(excluded) ==
    get_kumagai_correction(call.defect_entry,
                           [call EXCEPT !.excluded_indices = excluded]).efnv

\* The atom mapping of the call.
MappingOfCall ==
    atom_mapping(call.defect_entry.defect_supercell, call.defect_entry.bulk_supercell)

\* A call that excluded nothing has returned: the k-th site of its result
\* is the k-th mapped atom.
ReturnedAllSites == Returned("kumagai") /\ call.excluded_indices = {}

\* C21 as stated: excluding an atom that was in the sampling region changes
\* the alignment constant, the mean of diff_pot over the sampled sites.
C21_ExclusionChangesAlignment ==
    ReturnedAllSites =>
        \A k \in Sampled(result.efnv) :
            ~RatEq(average_potential_diff(EfnvExcluding({MappingOfCall[k][1]})),
                   average_potential_diff(result.efnv))

\* C21 as amended: excluding an atom that was in the sampling region takes
\* its site, and no other, out of the sites and of the sampled sites; the
\* alignment constant becomes the mean over the remaining sampled sites,
\* which differs from the one before unless the diff_pot of the excluded
\* site was that mean (with no site left it is nan).
C21_ExclusionRemovesSite ==
    ReturnedAllSites =>
        \A k \in Sampled(result.efnv) :
            LET other == EfnvExcluding({MappingOfCall[k][1]})
                n == Cardinality(Sampled(result.efnv))
                sum == SumDiff(result.efnv, Sampled(result.efnv))
                removed == diff_pot(result.efnv.sites[k])
            IN  /\ Len(other.sites) = Len(result.efnv.sites) - 1
                /\ \A j \in 1..Len(other.sites) :
                      other.sites[j] = result.efnv.sites[IF j < k THEN j ELSE j + 1]
                /\ Cardinality(Sampled(other)) = n - 1
                /\ average_potential_diff(other) = Rat(sum - removed, n - 1)
                /\ RatEq(average_potential_diff(other),
                         average_potential_diff(result.efnv))
                      <=> (n > 1 /\ n * removed = sum)

\* A charged defect with two sampled sites or more has been corrected, and
\* excluding one of them changes the alignment constant.
C21_Witness ==
    /\ ReturnedAllSites
    /\ defect_entry.charge_state # 0
    /\ Cardinality(Sampled(result.efnv)) > 1
    /\ \E k \in Sampled(result.efnv) :
          LET other == EfnvExcluding({MappingOfCall[k][1]})
          IN  /\ average_potential_diff(other).den # 0
              /\ ~RatEq(average_potential_diff(other),
                        average_potential_diff(result.efnv))

\* ----------------------------------------------------------------- C22
\* The pairs <<d, p>> of the atom mapping whose d is not excluded, in the
\* order of the mapping.
RECURSIVE Kept(_, _)
Kept(mapping, excluded) ==
    IF mapping = <<>> THEN <<>>
    ELSE (IF Head(mapping)[1] \in excluded THEN <<>> ELSE <<Head(mapping)>>)
             \o Kept(Tail(mapping), excluded)

\* A defect atom with a counterpart in the bulk supercell.
Mapped(d) == \E k \in 1..Len(MappingOfCall) : MappingOfCall[k][1] = d

\* C22: the site list of doped_make_efnv_correction holds one PotentialSite
\* for every pair <<d, p>> of the atom mapping with d not in
\* excluded_indices, and none for an excluded or unmapped atom; the
\* potential of each is the defect potential of d minus the bulk potential
\* of p, and its distance the minimum-image distance of atom d from the
\* defect centre.
C22_SiteList ==
    Returned("kumagai") =>
        LET entry == call.defect_entry
            kept == Kept(MappingOfCall, call.excluded_indices)
            sites == result.efnv.sites
            defect_potentials == entry.calculation_metadata.defect_site_potentials.v
            bulk_potentials == entry.calculation_metadata.bulk_site_potentials.v
        IN  /\ Len(sites) = Len(kept)
            /\ Len(sites)
                  = Cardinality({d \in 1..NAtoms : Mapped(d) /\ d \notin call.excluded_indices})
            /\ \A k \in 1..Len(kept) :
                  LET d == kept[k][1]
                      p == kept[k][2]
                  IN  /\ entry.bulk_supercell.sites[p] = entry.defect_supercell.sites[d]
                      /\ sites[k].specie = entry.defect_supercell.sites[d].specie
                      /\ sites[k].potential = defect_potentials[d] - bulk_potentials[p]
                      /\ sites[k].distance2
                             = Distance2(entry.defect_supercell.lattice,
                                         entry.sc_defect_frac_coords,
                                         entry.defect_supercell.sites[d].frac)

\* A correction has been returned for a defect supercell with an unmapped
\* atom, with a mapped atom excluded and another listed whose defect and
\* bulk potentials differ.
C22_Witness ==
    /\ Returned("kumagai")
    /\ \E d \in 1..NAtoms : ~Mapped(d)
    /\ \E d \in call.excluded_indices : Mapped(d)
    /\ Len(result.efnv.sites) = NAtoms - 2
    /\ \E k \in 1..Len(result.efnv.sites) : result.efnv.sites[k].potential # 0

\* ----------------------------------------------------------------- C23
\* The sites of the result with a model potential assigned.
WithModelPotential == {k \in 1..Len(result.efnv.sites) : result.efnv.sites[k].pc_potential.set}

\* The square of the radius of the result; the radius is not negative.
RadiusSquared == result.efnv.defect_region_radius * result.efnv.defect_region_radius

\* C23: a site of the eFNV result has a model potential if and only if its
\* distance from the defect centre is strictly greater than the defect
\* region radius; the sites at the radius or nearer keep the null model
\* potential and take no part in the alignment.
C23_ModelPotentialBeyondRadius ==
    Returned("kumagai") =>
        /\ result.efnv.defect_region_radius >= 0
        /\ \A k \in 1..Len(result.efnv.sites) :
              LET site == result.efnv.sites[k]
              IN  /\ site.pc_potential.set <=> site.distance2 > RadiusSquared
                  /\ ~(site.distance2 > RadiusSquared) => site.pc_potential = NonePot
        /\ Sampled(result.efnv) = WithModelPotential

\* A charged defect with a site exactly at the radius, left without model
\* potential, and a site beyond it has been corrected.
C23_Witness ==
    /\ Returned("kumagai")
    /\ defect_entry.charge_state # 0
    /\ \E k \in 1..Len(result.efnv.sites) :
          /\ result.efnv.sites[k].distance2 = RadiusSquared
          /\ ~result.efnv.sites[k].pc_potential.set
    /\ \E k \in WithModelPotential : result.efnv.sites[k].pc_potential.v # 0

\* ----------------------------------------------------------------- C24
\* C24 as stated: for q = 0 the point-charge correction is 0 and the model
\* potential of every site of the result is 0.
C24_NeutralAllPotentialsZero ==
    (Returned("kumagai") /\ defect_entry.charge_state = 0) =>
        /\ result.efnv.point_charge_correction = 0
        /\ \A k \in 1..Len(result.efnv.sites) :
              result.efnv.sites[k].pc_potential = SomePot(0)

\* C24 as amended: for q = 0 the point-charge correction is 0 and the model
\* potential of every site farther from the defect than the radius is 0;
\* the sites at the radius or nearer keep the null model potential.
C24_NeutralSampledPotentialsZero ==
    (Returned("kumagai") /\ defect_entry.charge_state = 0) =>
        /\ result.efnv.point_charge_correction = 0
        /\ \A k \in 1..Len(result.efnv.sites) :
              result.efnv.sites[k].pc_potential
                  = IF result.efnv.sites[k].distance2 > RadiusSquared
                    THEN SomePot(0) ELSE NonePot

\* A neutral defect with a site within the radius and a site beyond it has
\* been corrected, under Ewald sums that are not 0 at a sampled site.
C24_Witness ==
    /\ Returned("kumagai")
    /\ defect_entry.charge_state = 0
    /\ \E k \in 1..Len(result.efnv.sites) : ~result.efnv.sites[k].pc_potential.set
    /\ WithModelPotential # {}
    /\ lattice_energy(DefectLattice.abc, TensorOfCall, call.accuracy) # 0

\* ----------------------------------------------------------------- C25
\* The sum of potential - pc_potential over the sites ks of the result.
RECURSIVE SumOver(_)
SumOver(ks) ==
    IF ks = {} THEN 0
    ELSE LET k == CHOOSE x \in ks : TRUE
         IN  (result.efnv.sites[k].potential - result.efnv.sites[k].pc_potential.v)
                 + SumOver(ks \ {k})

\* C25: the alignment constant ave_pot_diff of the eFNV result is the
\* arithmetic mean of potential difference minus model potential over the
\* sites with a model potential, which are the listed (mapped, not
\* excluded) sites farther from the defect centre than the radius; the
\* energy returned is the point-charge term minus the charge times it.
C25_AlignmentIsMeanOverSampled ==
    Returned("kumagai") =>
        LET n == Cardinality(WithModelPotential)
            sum == SumOver(WithModelPotential)
        IN  /\ n > 0
            /\ average_potential_diff(result.efnv) = Rat(sum, n)
            /\ WithModelPotential
                  = {k \in 1..Len(result.efnv.sites) :
                        result.efnv.sites[k].distance2 > RadiusSquared}
            /\ RatEq(result.correction_energy,
                     Rat(result.efnv.point_charge_correction * n
                             - defect_entry.charge_state * sum, n))

\* A charged defect has been corrected with a listed site left out of the
\* mean, whose value is not that mean, and two sites in it.
C25_Witness ==
    /\ Returned("kumagai")
    /\ defect_entry.charge_state # 0
    /\ Cardinality(WithModelPotential) = 2
    /\ \E k \in 1..Len(result.efnv.sites) :
          /\ k \notin WithModelPotential
          /\ result.efnv.sites[k].potential * 2 # SumOver(WithModelPotential)

\* ----------------------------------------------------------------- C26
\* C26: with defect_region_radius None the radius that classifies the sites
\* and is stored in the eFNV result is that of the largest sphere inscribed
\* in the supercell; a radius given, 0 included, is used and stored as it
\* is.
C26_RadiusUsed ==
    Returned("kumagai") =>
        LET radius == IF call.defect_region_radius.set
                      THEN call.defect_region_radius.v
                      ELSE calc_max_sphere_radius(DefectLattice)
        IN  /\ result.efnv.defect_region_radius = radius
            /\ \A k \in 1..Len(result.efnv.sites) :
                  result.efnv.sites[k].pc_potential.set
                      <=> result.efnv.sites[k].distance2 > radius * radius

\* A correction has been returned for a radius given as 0, with a site in
\* the sampling region that the default radius leaves out.
C26_Witness ==
    /\ Returned("kumagai")
    /\ call.defect_region_radius = SomeArg(0)
    /\ result.efnv.defect_region_radius = 0
    /\ \E k \in WithModelPotential :
          ~Beyond(result.efnv.sites[k].distance2, calc_max_sphere_radius(DefectLattice))

\* ----------------------------------------------------------------- C27
\* The entry of the call without the metadata stored under key.
WithoutMetadata(key) ==
    [call.defect_entry EXCEPT !.calculation_metadata[key] = MetaAbsent]

\* The result of the call had the metadata under key been missing.
ResultWithout(key) ==
    IF call.fn = "kumagai" THEN get_kumagai_correction(WithoutMetadata(key), call)
    ELSE get_freysoldt_correction(WithoutMetadata(key), call)

\* C27: potential data given as an argument takes precedence over the
\* calculation_metadata: an entry of the metadata is consulted only when the
\* argument it stands in for is None, so the result of a call with such an
\* argument given is what it would be with the entry missing.
C27_ExplicitDataPrecedence ==
    /\ call.fn = "kumagai" =>
          /\ call.defect_outcar.kind # "None"
                => result = ResultWithout("defect_site_potentials")
          /\ call.bulk_outcar.kind # "None"
                => result = ResultWithout("bulk_site_potentials")
    /\ call.fn = "freysoldt" =>
          /\ call.defect_locpot.kind # "None"
                => result = ResultWithout("defect_locpot_dict")
          /\ call.bulk_locpot.kind # "None"
                => result = ResultWithout("bulk_locpot_dict")

\* ----------------------------------------------------------------- C29
\* The four checks of get_kumagai_correction on the inputs of the call, in
\* the order the claim gives: the dielectric, the defect site potentials,
\* the bulk site potentials, the lattices.
KumagaiChecks ==
    LET entry == call.defect_entry
        metadata == _monty_decode_nested_dicts(entry.calculation_metadata)
    IN  <<DielectricTensor(call.dielectric, metadata),
          SitePotentials(call.defect_outcar, metadata, "defect_site_potentials",
                         "Defect OUTCAR (for atomic site potentials)", "defect"),
          SitePotentials(call.bulk_outcar, metadata, "bulk_site_potentials",
                         "Bulk OUTCAR (for atomic site potentials)", "bulk"),
          BulkSupercellUsed(remove_oxidation_states(_get_bulk_supercell(entry)),
                            remove_oxidation_states(_get_defect_supercell(entry)))>>

\* The i-th check fails and every check before it passes.
FirstFailing(i) ==
    /\ ~KumagaiChecks[i].ok
    /\ \A j \in 1..(i - 1) : KumagaiChecks[j].ok

\* C29: get_kumagai_correction validates in the order dielectric, defect
\* site potentials, bulk site potentials, lattices, and the error raised is
\* that of the first check that fails, whatever else is invalid; a missing
\* dielectric is named before missing potentials, and the defect side before
\* the bulk side.
C29_FirstFailingCheckDecides ==
    call.fn = "kumagai" =>
        /\ \A i \in 1..4 :
               FirstFailing(i) => /\ result.kind = KumagaiChecks[i].err
                                  /\ result.msg = KumagaiChecks[i].msg
        /\ (call.dielectric.kind = "None" /\ Missing("dielectric"))
               => NamesMissing("Dielectric constant", "dielectric")
        /\ (DielectricAvailable /\ call.defect_outcar.kind = "None"
                /\ Missing("defect_site_potentials"))
               => NamesMissing("Defect OUTCAR (for atomic site potentials)",
                               "defect_site_potentials")

\* get_kumagai_correction has been called with the dielectric at hand, a
\* defect OUTCAR without core potentials and no bulk site potentials at all,
\* and has named the defect side.
C29_Witness ==
    /\ call.fn = "kumagai"
    /\ DielectricAvailable
    /\ Incomplete(call.defect_outcar)
    /\ call.bulk_outcar.kind = "None"
    /\ Missing("bulk_site_potentials")
    /\ NamesIncomplete("defect")

\* ----------------------------------------------------------------- C30
\* The kinds the error message of an obj_type names, and the dict of planar
\* averages for a LOCPOT.
NamedKinds(obj_type) ==
    IF obj_type = "outcar" THEN {"str", "Outcar"} ELSE {"str", "Locpot", "dict"}

\* _check_if_str_and_get_pmg_obj raises a TypeError for a value of a kind
\* not named, and returns an accepted object that is no path unchanged.
AcceptsOnlyNamed(x, obj_type) ==
    LET loaded == _check_if_str_and_get_pmg_obj(x, obj_type)
    IN  IF x.kind \notin NamedKinds(obj_type)
        THEN ~loaded.ok /\ loaded.err = "TypeError"
        ELSE loaded.ok /\ (x.kind # "str" => loaded.val = x)

\* C30: _check_if_str_and_get_pmg_obj accepts only the kinds its error
\* message names: as an OUTCAR a path or an Outcar object, as a LOCPOT a
\* path, a Locpot object or a dict of planar averages; every other value
\* raises a TypeError, which the calling function passes on, and an accepted
\* object is returned unchanged.
C30_OnlyNamedKindsAccepted ==
    /\ call.fn = "kumagai" =>
          /\ call.defect_outcar.kind # "None"
                => /\ AcceptsOnlyNamed(call.defect_outcar, "outcar")
                   /\ call.defect_outcar.kind \notin NamedKinds("outcar")
                         => result.kind = "TypeError"
          /\ call.bulk_outcar.kind # "None"
                => AcceptsOnlyNamed(call.bulk_outcar, "outcar")
    /\ call.fn = "freysoldt" =>
          /\ call.defect_locpot.kind # "None"
                => /\ AcceptsOnlyNamed(call.defect_locpot, "locpot")
                   /\ call.defect_locpot.kind \notin NamedKinds("locpot")
                         => result.kind = "TypeError"
          /\ call.bulk_locpot.kind # "None"
                => AcceptsOnlyNamed(call.bulk_locpot, "locpot")

\* ----------------------------------------------------------------- C28
\* A list of dictionaries: every element a dict, serialized or not.
ListOfDicts(value) ==
    /\ value.kind = "list"
    /\ \A i \in DOMAIN value.items : value.items[i].kind \in {"dict", "serialized"}

\* A serialized object is left in a value, under dicts and lists of dicts
\* only.
RECURSIVE HasSerialized(_)
HasSerialized(value) ==
    \/ value.kind = "serialized"
    \/ /\ value.kind = "dict" \/ ListOfDicts(value)
       /\ \E i \in DOMAIN value.items : HasSerialized(value.items[i])

\* C28: after _monty_decode_nested_dicts(d) has returned, no serialized
\* object is left anywhere in d, in dicts or in lists of dicts at any depth:
\* each has been replaced by its decoded object.
C28_AllSerializedDecoded ==
    call.fn = "_monty_decode_nested_dicts"
        => ~HasSerialized(defect_entry.calculation_metadata)

====
